---- MODULE Spec2Model ----
(***************************************************************************)
(* A model of the ascii-art-color rendering pipeline:                      *)
(*   renderer.ASCII          (src/unnamed/part_005)                        *)
(*   parser.buildBanner      (src/unnamed/part_004)                        *)
(*   parser.CharWidths       (src/unnamed/part_004)                        *)
(* Strings are sequences of code points; '\n' is 10.  A Go map is a        *)
(* function whose domain is the set of keys present.  A slice value is a   *)
(* record that keeps the nil / empty distinction Go makes.                 *)
(***************************************************************************)
EXTENDS Integers, Sequences, FiniteSets, TLC

VARIABLES
    input,      \* the text handed to renderer.ASCII / parser.CharWidths
    banner,     \* the glyph table handed to them
    pc,         \* position of the caller: "call" | "returned"
    out,        \* string returned by the last call of ASCII
    err,        \* error returned by the last call of ASCII
    prevOut,    \* out of the call made before a line break was appended
    prevErr,    \* err of that call
    appended,   \* TRUE once the caller appended a line break to input
    widths,     \* result of the last call of CharWidths
    lines,      \* buildBanner: the raw lines
    bannerAcc,  \* buildBanner: the local map under construction
    runeCode,   \* buildBanner: local runeCode
    i,          \* buildBanner: local i (0-based index into lines)
    bpc,        \* buildBanner: "entry" | "loop" | "check" | "done"
    bret,       \* buildBanner: returned Banner
    berr,       \* buildBanner: returned error
    asciiArt,   \* ApplyColor: the art lines
    text,       \* ApplyColor: the text (a Go string, indexed by byte)
    substring,  \* ApplyColor: the substring to color
    charWidths, \* ApplyColor: the column widths
    colored,    \* ApplyColor: what the call returned
    cpc,        \* caller of ApplyColor: "call" | "returned"
    positions,  \* result of the last call of findPositions
    fpc,        \* caller of findPositions: "call" | "returned"
    mode,       \* program: "plain" | "color"
    ptext,      \* program: the text after argument parsing
    psub,       \* program: the substring to color
    charMap,    \* program: the loaded banner
    plines,     \* program, color mode: strings.Split(text, "\n")
    pidx,       \* program, color mode: 0-based index of the next line
    stdout,     \* program: what was written to standard output
    exitCode,   \* program: exit code, -1 while running
    ppc,        \* program: stage about to run, "exited" or "panicked"
    colorCode,  \* program, color mode: color.ANSI(rgb)
    stages,     \* program: the stages run so far, in order
    loadFails,  \* environment: TRUE when reading the banner file fails
    plainOut,   \* what an earlier plain run of the same text printed
    args,       \* the argument vector (os.Args)
    parseErr,   \* error returned by the last call of flagparser.ParseArgs
    extracted,  \* what the last call of extractColorArgs returned
    cspec,      \* the color specification handed to color.Parse
    cshape,     \* how that specification was written: form and components
    parsed,     \* what the last call of color.Parse returned
    apc         \* caller of those three: "call" | "returned"

ioVars     == <<input, banner, pc>>
renderVars == <<out, err, prevOut, prevErr, appended>>
widthVars  == <<widths>>
buildVars  == <<lines, bannerAcc, runeCode, i, bpc, bret, berr>>
colorVars  == <<asciiArt, text, substring, charWidths, colored, cpc,
                positions, fpc>>
progVars   == <<mode, ptext, psub, charMap, plines, pidx, stdout, exitCode, ppc,
                colorCode, stages, loadFails, plainOut>>
argVars    == <<args, parseErr, extracted, cspec, cshape, parsed, apc>>
vars       == <<input, banner, pc, out, err, prevOut, prevErr, appended,
                widths, lines, bannerAcc, runeCode, i, bpc, bret, berr,
                asciiArt, text, substring, charWidths, colored, cpc,
                positions, fpc,
                mode, ptext, psub, charMap, plines, pidx, stdout, exitCode, ppc,
                colorCode, stages, loadFails, plainOut,
                args, parseErr, extracted, cspec, cshape, parsed, apc>>

(***************************************************************************)
(* Bounds of the model.                                                    *)
(***************************************************************************)
MaxTextLen == 4

\* raw banner inputs: seeds of the line contents, line counts 0..MaxShortLines
\* and expectedLines - MaxSlack .. expectedLines + MaxSlack
MaxSeed == 6

MaxShortLines == 2

MaxSlack == 9

\* texts handed to CharWidths
MaxWidthTextLen == 3

\* ApplyColor: longest text and longest widths slice; substrings are one
\* shorter at most
MaxColorLen == 3

\* the program: longest text argument
MaxProgTextLen == 3

\* flagparser.ParseArgs: longest argument vector
MaxArgs == 6

\* extractColorArgs: most arguments after the flag
MaxRemaining == 4

\* the program: most texts of an argument vector
MaxMainTexts == 2

\* color.Parse: most components of an rgb() form, most digits of a # form
MaxComponents == 4

MaxHexDigits == 7

(***************************************************************************)
(* Program constants.                                                      *)
(***************************************************************************)
bannerHeight == 8

NewLine == 10

firstPrintable == 32

lastPrintable == 126

totalChars == 95

expectedLines == 855

linesPerGlyph == 8

linesPerChar == 9

(***************************************************************************)
(* Values.                                                                 *)
(***************************************************************************)
\* a Go error value; kind "none" is the nil error
NoError == [kind |-> "none", ch |-> 0, n |-> 0]

GoError(kind, ch, n) == [kind |-> kind, ch |-> ch, n |-> n]

\* a []string value: the nil slice, or a slice holding rows
NilSlice == [isNil |-> TRUE, rows |-> <<>>]

Slice(rows) == [isNil |-> FALSE, rows |-> rows]

\* banner[ch] of a Go map: the zero value (nil slice) when the key is absent
MapIndex(m, ch) == IF ch \in DOMAIN m THEN m[ch] ELSE NilSlice

\* len(banner) of a Go map
MapLen(m) == Cardinality(DOMAIN m)

RECURSIVE SumSeq(_)
\* the sum of a sequence of numbers
SumSeq(ns) == IF ns = <<>> THEN 0 ELSE Head(ns) + SumSeq(Tail(ns))

(***************************************************************************)
(* renderer.ASCII                                                          *)
(***************************************************************************)

isInvalidNoLower(ch) == ch > 126

\* the range test of validateInput
isInvalid(ch) == ch < 32 \/ ch > 126

RECURSIVE validateInputFrom(_, _)
\* the loop of validateInput from the k-th character on
validateInputFrom(s, k) ==
    IF k > Len(s) THEN NoError
    ELSE IF s[k] = NewLine THEN validateInputFrom(s, k + 1)
    ELSE IF isInvalid(s[k]) THEN GoError("invalid character", s[k], 0)
    ELSE validateInputFrom(s, k + 1)

validateInput(s) == validateInputFrom(s, 1)

RECURSIVE SplitFrom(_, _, _)
\* strings.Split(s, "\n"): cur is the segment being collected from s[k..]
SplitFrom(s, k, cur) ==
    IF k > Len(s) THEN <<cur>>
    ELSE IF s[k] = NewLine THEN <<cur>> \o SplitFrom(s, k + 1, <<>>)
    ELSE SplitFrom(s, k + 1, Append(cur, s[k]))

Split(s) == SplitFrom(s, 1, <<>>)

dropTrailingKeep(parts) == parts

\* parts after the trailing empty segment is dropped
dropTrailing(parts) ==
    IF Len(parts) > 0 /\ parts[Len(parts)] = <<>>
    THEN SubSeq(parts, 1, Len(parts) - 1)
    ELSE parts

heightIsWrongBelow(value) == Len(value.rows) < bannerHeight

\* the height test of validateBannerCharacters
heightIsWrong(value) == Len(value.rows) # bannerHeight

validateBannerCharacters(ch, m) ==
    LET value == MapIndex(m, ch) IN
    IF ch \notin DOMAIN m
    THEN [value |-> <<>>, err |-> GoError("not found in banner", ch, 0)]
    ELSE IF heightIsWrong(value)
    THEN [value |-> <<>>, err |-> GoError("wrong line count", ch, Len(value.rows))]
    ELSE [value |-> value.rows, err |-> NoError]

glyphRowFirst(value, r) == value[1]

\* value[i] for the 0-based row index i
glyphRow(value, r) == value[r + 1]

emptyLineHeight(result) == result \o [r \in 1..bannerHeight |-> NewLine]

\* what the line loop writes for an empty logical line
emptyLine(result) == Append(result, NewLine)

RECURSIVE renderChars(_, _, _, _, _)
\* the loop over the characters of line for art row r (0-based), from the
\* k-th character on, and the line break written after it; result is the
\* builder
renderChars(line, r, m, k, result) ==
    IF k > Len(line) THEN [result |-> Append(result, NewLine), err |-> NoError]
    ELSE LET v == validateBannerCharacters(line[k], m) IN
         IF v.err.kind # "none" THEN [result |-> <<>>, err |-> v.err]
         ELSE renderChars(line, r, m, k + 1, result \o glyphRow(v.value, r))

RECURSIVE renderRows(_, _, _, _)
\* the loop for i := 0; i < bannerHeight; i++
renderRows(line, r, m, result) ==
    IF ~(r < bannerHeight) THEN [result |-> result, err |-> NoError]
    ELSE LET row == renderChars(line, r, m, 1, result) IN
         IF row.err.kind # "none" THEN row
         ELSE renderRows(line, r + 1, m, row.result)

RECURSIVE renderParts(_, _, _, _)
\* the loop for _, line := range parts
renderParts(parts, p, m, result) ==
    IF p > Len(parts) THEN [result |-> result, err |-> NoError]
    ELSE IF parts[p] = <<>> THEN renderParts(parts, p + 1, m, emptyLine(result))
    ELSE LET block == renderRows(parts[p], 0, m, result) IN
         IF block.err.kind # "none" THEN block
         ELSE renderParts(parts, p + 1, m, block.result)

earlyReturnTableFirst(s, m) ==
    IF MapLen(m) = 0 THEN "banner is empty"
    ELSE IF s = <<>> THEN "return empty"
    ELSE "continue"

\* the two early returns between the split and the loop, in the code's order
earlyReturn(s, m) ==
    IF s = <<>> THEN "return empty"
    ELSE IF MapLen(m) = 0 THEN "banner is empty"
    ELSE "continue"

resultStringTrimmed(result) ==
    IF result # <<>> /\ result[Len(result)] = NewLine
    THEN SubSeq(result, 1, Len(result) - 1)
    ELSE result

\* result.String() of the final return
resultString(result) == result

ASCII(s, m) ==
    LET verr == validateInput(s) IN
    IF verr.kind # "none" THEN [out |-> <<>>, err |-> verr]
    ELSE LET parts == dropTrailing(Split(s))
             early == earlyReturn(s, m)
         IN  IF early = "return empty" THEN [out |-> <<>>, err |-> NoError]
             ELSE IF early = "banner is empty"
             THEN [out |-> <<>>, err |-> GoError("banner is empty", 0, 0)]
             ELSE LET res == renderParts(parts, 1, m, <<>>) IN
                  IF res.err.kind # "none" THEN [out |-> <<>>, err |-> res.err]
                  ELSE [out |-> resultString(res.result), err |-> NoError]

(***************************************************************************)
(* parser.buildBanner                                                      *)
(***************************************************************************)
\* a Banner value returned by buildBanner: nil, or a map
NilBanner == [isNil |-> TRUE, m |-> <<>>]

lengthIsWrongBelow(n) == n < expectedLines

\* the strict line-count test
lengthIsWrong(n) == n # expectedLines

firstGlyphLineZero == 1 - 1

\* i := 1, the 0-based index of the first glyph row
firstGlyphLine == 1

\* lines[lo:hi] of a Go slice, 0-based and half-open
SliceOf(ls, lo, hi) == SubSeq(ls, lo + 1, hi)

\* banner[key] = value on a Go map
MapSet(m, key, value) ==
    [c \in DOMAIN m \cup {key} |-> IF c = key THEN value ELSE m[c]]

\* the condition of the grouping loop
loopCondition ==
    i + linesPerGlyph <= Len(lines) /\ runeCode <= lastPrintable

\* if len(lines) == 0 { return nil, "empty banner file" }
BuildEmpty ==
    /\ bpc = "entry"
    /\ Len(lines) = 0
    /\ bret' = NilBanner
    /\ berr' = GoError("empty banner file", 0, 0)
    /\ bpc' = "done"
    /\ UNCHANGED <<lines, bannerAcc, runeCode, i, ioVars, renderVars, widthVars, colorVars, progVars, argVars>>

\* if len(lines) != expectedLines { return nil, "invalid format" }
BuildFormat ==
    /\ bpc = "entry"
    /\ Len(lines) # 0
    /\ lengthIsWrong(Len(lines))
    /\ bret' = NilBanner
    /\ berr' = GoError("invalid format", 0, Len(lines))
    /\ bpc' = "done"
    /\ UNCHANGED <<lines, bannerAcc, runeCode, i, ioVars, renderVars, widthVars, colorVars, progVars, argVars>>

\* banner := make(Banner); runeCode := firstPrintable; i := 1
BuildStart ==
    /\ bpc = "entry"
    /\ Len(lines) # 0
    /\ ~lengthIsWrong(Len(lines))
    /\ bannerAcc' = <<>>
    /\ runeCode' = firstPrintable
    /\ i' = firstGlyphLine
    /\ bpc' = "loop"
    /\ UNCHANGED <<lines, bret, berr, ioVars, renderVars, widthVars, colorVars, progVars, argVars>>

\* one iteration of the grouping loop
BuildStep ==
    /\ bpc = "loop"
    /\ loopCondition
    /\ bannerAcc' = MapSet(bannerAcc, runeCode, Slice(SliceOf(lines, i, i + linesPerGlyph)))
    /\ runeCode' = runeCode + 1
    /\ i' = i + linesPerChar
    /\ UNCHANGED <<lines, bpc, bret, berr, ioVars, renderVars, widthVars, colorVars, progVars, argVars>>

\* the loop ends; the completeness test and the return
BuildReturn ==
    /\ bpc = "loop"
    /\ ~loopCondition
    /\ IF MapLen(bannerAcc) # totalChars
       THEN /\ bret' = NilBanner
            /\ berr' = GoError("incomplete banner", 0, MapLen(bannerAcc))
       ELSE /\ bret' = [isNil |-> FALSE, m |-> bannerAcc]
            /\ berr' = NoError
    /\ bpc' = "done"
    /\ UNCHANGED <<lines, bannerAcc, runeCode, i, ioVars, renderVars, widthVars, colorVars, progVars, argVars>>

(***************************************************************************)
(* parser.CharWidths                                                       *)
(***************************************************************************)
\* the number of bytes of the UTF-8 encoding of a code point
RuneLen(ch) ==
    IF ch < 128 THEN 1 ELSE IF ch < 2048 THEN 2 ELSE IF ch < 65536 THEN 3 ELSE 4

\* len(text): the number of bytes of a string
ByteLen(s) == SumSeq([k \in 1..Len(s) |-> RuneLen(s[k])])

glyphWidthRows(glyph) == Len(glyph.rows)

\* len(glyph[0]), for a glyph with a first row
glyphWidth(glyph) == Len(glyph.rows[1])

RECURSIVE charWidthsFrom(_, _, _, _, _)
\* the loop for i, char := range text from the k-th character on, which
\* starts at byte offset off; ws is the slice widths
charWidthsFrom(s, m, k, off, ws) ==
    IF k > Len(s) THEN [panicked |-> FALSE, w |-> ws]
    ELSE LET glyph == MapIndex(m, s[k]) IN
         IF glyph.isNil THEN charWidthsFrom(s, m, k + 1, off + RuneLen(s[k]), ws)
         ELSE IF Len(glyph.rows) = 0 THEN [panicked |-> TRUE, w |-> <<>>]
         ELSE charWidthsFrom(s, m, k + 1, off + RuneLen(s[k]),
                             [ws EXCEPT ![off + 1] = glyphWidth(glyph)])

CharWidths(s, m) == charWidthsFrom(s, m, 1, 0, [b \in 1..ByteLen(s) |-> 0])

(***************************************************************************)
(* coloring.ApplyColor                                                     *)
(***************************************************************************)
\* const Reset = "\033[0m"
Reset == <<27, 91, 48, 109>>

\* the inner comparison loop: substring matches text at 0-based offset from
matchAt(t, sub, from) == \A p \in 0..(Len(sub) - 1) : t[from + p + 1] = sub[p + 1]

\* the marking loop: positions[i+p] = true for p < n
markFrom(pos, from, n) ==
    [q \in 1..Len(pos) |-> pos[q] \/ (q - 1 >= from /\ q - 1 < from + n)]

nextStartSkip(from, match, n) == IF match THEN from + n ELSE from + 1

\* i++ of the scan, whether or not the substring matched at the offset
nextStart(from, match, n) == from + 1

lastStartShort(t, sub) == Len(t) - Len(sub) - 1

\* the last start offset the scan tries
lastStart(t, sub) == Len(t) - Len(sub)

RECURSIVE findFrom(_, _, _, _)
\* the scan for i := 0; i <= len(text)-len(substring); i++ from offset from on
findFrom(t, sub, from, pos) ==
    IF ~(from <= lastStart(t, sub)) THEN pos
    ELSE LET match == matchAt(t, sub, from) IN
         findFrom(t, sub, nextStart(from, match, Len(sub)),
                  IF match THEN markFrom(pos, from, Len(sub)) ELSE pos)

findPositions(t, sub) ==
    IF Len(sub) = 0 THEN [q \in 1..Len(t) |-> TRUE]
    ELSE findFrom(t, sub, 0, [q \in 1..Len(t) |-> FALSE])

remainderNone(line, offset) == <<>>

\* if offset < len(line) { builder.WriteString(line[offset:]) }
remainder(line, offset) ==
    IF offset < Len(line) THEN SubSeq(line, offset + 1, Len(line)) ELSE <<>>

\* end := offset + width; if end > len(line) { end = len(line) }
clipEnd(offset, width, line) ==
    IF offset + width > Len(line) THEN Len(line) ELSE offset + width

RECURSIVE colorLineFrom(_, _, _, _, _, _, _)
\* the loop for idx, width := range charWidths from index idx (0-based) on;
\* positions[idx] beyond the end of positions is a run-time panic
colorLineFrom(line, pos, cw, code, idx, offset, builder) ==
    IF idx >= Len(cw) \/ offset >= Len(line)
    THEN [panicked |-> FALSE, s |-> builder \o remainder(line, offset)]
    ELSE IF idx >= Len(pos) THEN [panicked |-> TRUE, s |-> <<>>]
    ELSE LET end     == clipEnd(offset, cw[idx + 1], line)
             isStart == pos[idx + 1] /\ (idx = 0 \/ ~pos[idx])
             isEnd   == pos[idx + 1]
                          /\ (idx = Len(pos) - 1 \/ ~pos[idx + 2])
             b1      == IF isStart THEN builder \o code ELSE builder
             b2      == b1 \o SubSeq(line, offset + 1, end)
             b3      == IF isEnd THEN b2 \o Reset ELSE b2
         IN  colorLineFrom(line, pos, cw, code, idx + 1, end, b3)

colorLine(line, pos, cw, code) ==
    colorLineFrom(line, pos, cw, code, 0, 0, <<>>)

\* len(asciiArt) == 0 || len(charWidths) == 0 || len(text) == 0
isDegenerate(art, t, cw) == Len(art) = 0 \/ Len(cw) = 0 \/ Len(t) = 0

ApplyColor(art, t, sub, code, cw) ==
    IF isDegenerate(art, t, cw) THEN [panicked |-> FALSE, lines |-> art]
    ELSE LET pos == findPositions(t, sub)
             res == [k \in 1..Len(art) |-> colorLine(art[k], pos, cw, code)]
         IN  IF \E k \in 1..Len(art) : res[k].panicked
             THEN [panicked |-> TRUE, lines |-> <<>>]
             ELSE [panicked |-> FALSE, lines |-> [k \in 1..Len(art) |-> res[k].s]]

(***************************************************************************)
(* Inputs of the renderer model.                                           *)
(***************************************************************************)
\* '\n', tab, 'A', 'B' and U+00E9
TextChars == {NewLine, 9, 65, 66, 233}

Texts == UNION {[1..n -> TextChars] : n \in 0..MaxTextLen}

\* "A1".."A8"; one column "1".."8" for 'B'; "#" for the tab
GoodRows(c) ==
    IF c = 65 THEN [r \in 1..bannerHeight |-> <<65, 48 + r>>]
    ELSE IF c = 66 THEN [r \in 1..bannerHeight |-> <<48 + r>>]
    ELSE [r \in 1..bannerHeight |-> <<35>>]

\* bannerHeight rows of unequal length
RaggedRows(c) ==
    [r \in 1..bannerHeight |-> IF r % 2 = 1 THEN <<c, 48 + r>> ELSE <<48 + r>>]

GlyphChoices(c) ==
    IF c = 65
    THEN {Slice(GoodRows(c)), Slice(SubSeq(GoodRows(c), 1, bannerHeight - 1))}
    ELSE IF c = 66
    THEN {Slice(GoodRows(c)), Slice(Append(GoodRows(c), <<57>>)), Slice(RaggedRows(c))}
    ELSE {Slice(GoodRows(c))}

TableKeys == {9, 65, 66}

Tables ==
    UNION {{m \in [K -> UNION {GlyphChoices(c) : c \in K}] :
                \A c \in K : m[c] \in GlyphChoices(c)} : K \in SUBSET TableKeys}

(***************************************************************************)
(* The caller of the renderer.                                             *)
(***************************************************************************)
NoWidths == [panicked |-> FALSE, w |-> <<>>]

WidthsIdle == widths = NoWidths

RenderIdle ==
    /\ out = <<>>
    /\ err = NoError
    /\ prevOut = <<>>
    /\ prevErr = NoError
    /\ appended = FALSE

IoIdle ==
    /\ input = <<>>
    /\ banner = <<>>
    /\ pc = "idle"

NoColored == [panicked |-> FALSE, lines |-> <<>>]

ColorIdle ==
    /\ asciiArt = <<>>
    /\ text = <<>>
    /\ substring = <<>>
    /\ charWidths = <<>>
    /\ colored = NoColored
    /\ cpc = "idle"
    /\ positions = <<>>
    /\ fpc = "idle"

\* no plain run was made before
NoPlainOut == [ran |-> FALSE, out |-> <<>>]

ProgIdle ==
    /\ mode = "idle"
    /\ ptext = <<>>
    /\ psub = <<>>
    /\ charMap = <<>>
    /\ plines = <<>>
    /\ pidx = 0
    /\ stdout = <<>>
    /\ exitCode = -1
    /\ ppc = "idle"
    /\ colorCode = <<>>
    /\ stages = <<>>
    /\ loadFails = FALSE
    /\ plainOut = NoPlainOut

NoExtracted == [colorSpec |-> <<>>, substring |-> <<>>, text |-> <<>>, banner |-> <<>>,
                err |-> NoError]

NoRGB == [rgb |-> <<0, 0, 0>>, err |-> NoError]

NoShape == [form |-> "none", comps |-> <<>>, closed |-> FALSE]

ArgIdle ==
    /\ args = <<>>
    /\ parseErr = NoError
    /\ extracted = NoExtracted
    /\ cspec = <<>>
    /\ cshape = NoShape
    /\ parsed = NoRGB
    /\ apc = "idle"

BuildIdle ==
    /\ lines = <<>>
    /\ bannerAcc = <<>>
    /\ runeCode = 0
    /\ i = 0
    /\ bpc = "idle"
    /\ bret = NilBanner
    /\ berr = NoError

Init ==
    /\ input \in Texts
    /\ banner \in Tables
    /\ pc = "call"
    /\ out = <<>>
    /\ err = NoError
    /\ prevOut = <<>>
    /\ RenderIdle
    /\ WidthsIdle
    /\ BuildIdle
    /\ ColorIdle
    /\ ProgIdle
    /\ ArgIdle

\* output, err := ASCII(input, banner)
CallASCII ==
    /\ pc = "call"
    /\ LET res == ASCII(input, banner) IN
        /\ out' = res.out
        /\ err' = res.err
    /\ pc' = "returned"
    /\ UNCHANGED <<input, banner, prevOut, prevErr, appended, widthVars, buildVars, colorVars, progVars, argVars>>

\* the caller renders the same text again with one line break appended
AppendNewline ==
    /\ pc = "returned"
    /\ ~appended
    /\ input' = Append(input, NewLine)
    /\ prevOut' = out
    /\ prevErr' = err
    /\ appended' = TRUE
    /\ pc' = "call"
    /\ UNCHANGED <<banner, out, err, widthVars, buildVars, colorVars, progVars, argVars>>

Next == CallASCII \/ AppendNewline

Spec == Init /\ [][Next]_vars

(***************************************************************************)
(* The caller of buildBanner.                                              *)
(***************************************************************************)
\* the line at 0-based index j of the raw input of seed s: a separator
\* (j a multiple of linesPerChar) is empty or "#", any other line is not
LineText(j, s) ==
    IF j % linesPerChar = 0
    THEN (IF s % 2 = 0 THEN <<>> ELSE <<35>>)
    ELSE <<40 + (j % 7), 50 + ((j \div 7) % 11), 64 + s>>

LineCounts ==
    (0..MaxShortLines) \cup ((expectedLines - MaxSlack)..(expectedLines + MaxSlack))

BannerInputs ==
    {[j \in 1..n |-> LineText(j - 1, s)] : n \in LineCounts, s \in 1..MaxSeed}

InitBuild ==
    /\ lines \in BannerInputs
    /\ bannerAcc = <<>>
    /\ runeCode = 0
    /\ i = 0
    /\ bpc = "entry"
    /\ bret = NilBanner
    /\ berr = NoError
    /\ IoIdle
    /\ RenderIdle
    /\ WidthsIdle
    /\ ColorIdle
    /\ ProgIdle
    /\ ArgIdle

NextBuild == BuildEmpty \/ BuildFormat \/ BuildStart \/ BuildStep \/ BuildReturn

SpecBuild == InitBuild /\ [][NextBuild]_vars

(***************************************************************************)
(* The caller of CharWidths.                                               *)
(***************************************************************************)
\* 'A', 'B' and U+00E9, whose UTF-8 encoding has two bytes
WidthTextChars == {65, 66, 233}

WidthTexts == UNION {[1..n -> WidthTextChars] : n \in 0..MaxWidthTextLen}

\* the glyphs of Tables, a nil slice and an empty slice
WidthGlyphChoices(c) ==
    IF c = 65 THEN GlyphChoices(c) \cup {NilSlice}
    ELSE IF c = 66 THEN GlyphChoices(c) \cup {Slice(<<>>)}
    ELSE {Slice(GoodRows(c))}

WidthTables ==
    UNION {{m \in [K -> UNION {WidthGlyphChoices(c) : c \in K}] :
                \A c \in K : m[c] \in WidthGlyphChoices(c)} : K \in SUBSET {65, 66, 233}}

InitWidths ==
    /\ input \in WidthTexts
    /\ banner \in WidthTables
    /\ pc = "call"
    /\ widths = NoWidths
    /\ RenderIdle
    /\ BuildIdle
    /\ ColorIdle
    /\ ProgIdle
    /\ ArgIdle

\* widths := CharWidths(input, banner)
CallCharWidths ==
    /\ pc = "call"
    /\ widths' = CharWidths(input, banner)
    /\ pc' = "returned"
    /\ UNCHANGED <<input, banner, renderVars, buildVars, colorVars, progVars, argVars>>

NextWidths == CallCharWidths

SpecWidths == InitWidths /\ [][NextWidths]_vars

(***************************************************************************)
(* The caller that renders a text and measures it, as runColorMode does.   *)
(***************************************************************************)
InitAlign ==
    /\ input \in Texts
    /\ banner \in Tables
    /\ pc = "call"
    /\ widths = NoWidths
    /\ RenderIdle
    /\ BuildIdle
    /\ ColorIdle
    /\ ProgIdle
    /\ ArgIdle

\* art, err := renderer.ASCII(line, charMap), and when that succeeds
\* widths := parser.CharWidths(line, charMap)
RenderAndMeasure ==
    /\ pc = "call"
    /\ LET res == ASCII(input, banner) IN
          /\ out' = res.out
          /\ err' = res.err
          /\ widths' = IF res.err = NoError THEN CharWidths(input, banner) ELSE widths
    /\ pc' = "returned"
    /\ UNCHANGED <<input, banner, prevOut, prevErr, appended,
                   buildVars, colorVars, progVars, argVars>>

NextAlign == RenderAndMeasure

SpecAlign == InitAlign /\ [][NextAlign]_vars

(***************************************************************************)
(* The caller of ApplyColor.                                               *)
(***************************************************************************)
\* colorCode := "\033[31m"
testColorCode == <<27, 91, 51, 49, 109>>

\* 'a' and 'b'
ColorTextChars == {97, 98}

ColorTexts == UNION {[1..n -> ColorTextChars] : n \in 0..MaxColorLen}

Substrings == UNION {[1..n -> ColorTextChars] : n \in 0..(MaxColorLen - 1)}

WidthLists == UNION {[1..n -> 0..2] : n \in 0..MaxColorLen}

\* an art line of n columns "ABC..." and one of n columns "abc..."
ArtLine(n) == [j \in 1..n |-> 64 + j]

ArtLineLower(n) == [j \in 1..n |-> 96 + j]

\* line lengths around the sum of the widths: empty, shorter, equal, longer
LineLens(cw) ==
    {n \in {0, 1, SumSeq(cw) - 1, SumSeq(cw), SumSeq(cw) + 1, SumSeq(cw) + 2} : n >= 0}

\* no line, one line, or two lines of which the second has the aligned length
ArtChoices(cw) ==
    {<<>>}
        \cup {<<ArtLine(n)>> : n \in LineLens(cw)}
        \cup {<<ArtLine(n), ArtLineLower(SumSeq(cw))>> : n \in LineLens(cw)}

\* inputs of TestApplyColor_AdvancedCases: "banana"/"ana" and "ABC"/"B"
ColorScenarios ==
    { [art |-> << <<98, 97, 110, 97, 110, 97>> >>, t |-> <<98, 97, 110, 97, 110, 97>>,
       sub |-> <<97, 110, 97>>, cw |-> <<1, 1, 1, 1, 1, 1>>],
      [art |-> << <<65, 65, 65, 66, 66, 66, 66, 66, 66, 67, 67, 67>> >>,
       t |-> <<65, 66, 67>>, sub |-> <<66>>, cw |-> <<3, 6, 3>>] }

\* the caller's arguments: a scenario of the tests, or any combination of a
\* widths slice, an art around its total width, a text and a substring
ColorInputIs(c) ==
    /\ asciiArt = c.art
    /\ text = c.t
    /\ substring = c.sub
    /\ charWidths = c.cw

InitColor ==
    /\ \/ \E c \in ColorScenarios : ColorInputIs(c)
       \/ \E cw \in WidthLists, t \in ColorTexts, sub \in Substrings :
             \E a \in ArtChoices(cw) :
                ColorInputIs([art |-> a, t |-> t, sub |-> sub, cw |-> cw])
    /\ colored = NoColored
    /\ cpc = "call"
    /\ positions = <<>>
    /\ fpc = "idle"
    /\ IoIdle
    /\ RenderIdle
    /\ WidthsIdle
    /\ BuildIdle
    /\ ProgIdle
    /\ ArgIdle

\* colored := coloring.ApplyColor(asciiArt, text, substring, colorCode, charWidths)
CallApplyColor ==
    /\ cpc = "call"
    /\ colored' = ApplyColor(asciiArt, text, substring, testColorCode, charWidths)
    /\ cpc' = "returned"
    /\ UNCHANGED <<asciiArt, text, substring, charWidths, positions, fpc,
                   ioVars, renderVars, widthVars, buildVars, progVars, argVars>>

NextColor == CallApplyColor

SpecColor == InitColor /\ [][NextColor]_vars

(***************************************************************************)
(* The caller of findPositions.                                            *)
(***************************************************************************)
\* texts and substrings of the scan: the ones of the ApplyColor caller and
\* "banana" / "ana" of the tests
FindInputs ==
    {[t |-> c.t, sub |-> c.sub] : c \in ColorScenarios}
        \cup {[t |-> t, sub |-> sub] : t \in ColorTexts, sub \in Substrings}

InitFind ==
    /\ \E c \in FindInputs :
          /\ text = c.t
          /\ substring = c.sub
    /\ asciiArt = <<>>
    /\ charWidths = <<>>
    /\ colored = NoColored
    /\ cpc = "idle"
    /\ positions = <<>>
    /\ fpc = "call"
    /\ IoIdle
    /\ RenderIdle
    /\ WidthsIdle
    /\ BuildIdle
    /\ ProgIdle
    /\ ArgIdle

\* positions := findPositions(text, substring)
CallFindPositions ==
    /\ fpc = "call"
    /\ positions' = findPositions(text, substring)
    /\ fpc' = "returned"
    /\ UNCHANGED <<asciiArt, text, substring, charWidths, colored, cpc,
                   ioVars, renderVars, widthVars, buildVars, progVars, argVars>>

NextFind == CallFindPositions

SpecFind == InitFind /\ [][NextFind]_vars

(***************************************************************************)
(* The program: main (plain mode) and runColorMode (color mode), from the  *)
(* point at which the arguments are parsed and the banner is loaded.       *)
(***************************************************************************)
exitCodeRenderError == 3

\* the decimal digits of n, as fmt's %d writes them
RECURSIVE Decimal(_)
Decimal(n) == IF n < 10 THEN <<48 + n>> ELSE Decimal(n \div 10) \o <<48 + (n % 10)>>

\* fmt.Sprintf("\033[38;2;%d;%d;%dm", rgb.R, rgb.G, rgb.B)
ANSI(rgb) ==
    <<27, 91, 51, 56, 59, 50, 59>> \o Decimal(rgb.R) \o <<59>> \o Decimal(rgb.G)
        \o <<59>> \o Decimal(rgb.B) \o <<109>>

\* the color of --color=red
Red == [R |-> 255, G |-> 0, B |-> 0]

\* strings.TrimSuffix(s, "\n")
TrimSuffix(s) ==
    IF Len(s) > 0 /\ s[Len(s)] = NewLine THEN SubSeq(s, 1, Len(s) - 1) ELSE s

RECURSIVE PrintLines(_)
\* fmt.Println(cl) for each cl of colored
PrintLines(ls) ==
    IF ls = <<>> THEN <<>> ELSE Append(Head(ls), NewLine) \o PrintLines(Tail(ls))

blankLinePrintedAlways(idx, n) == TRUE

\* if i < len(lines)-1: an empty segment prints a line break unless it is last
blankLinePrinted(idx, n) == idx < n - 1

\* a table LoadBanner returns: 8 rows for each of the 95 characters, each
\* glyph w(ch) columns wide
FullTable(w) ==
    [ch \in firstPrintable..lastPrintable |->
        Slice([r \in 1..linesPerGlyph |-> [c \in 1..w[ch] |-> ch]])]

StandardWidth == [ch \in firstPrintable..lastPrintable |-> 2]

ShadowWidth == [ch \in firstPrintable..lastPrintable |-> 3]

ThinkertoyWidth == [ch \in firstPrintable..lastPrintable |-> 1 + (ch % 2)]

\* the tables of the banners standard, shadow and thinkertoy
BannerTables ==
    {FullTable(StandardWidth), FullTable(ShadowWidth), FullTable(ThinkertoyWidth)}

\* line break, tab (not printable), 'A', 'B'
ProgTextChars == {NewLine, 9, 65, 66}

ProgTexts == UNION {[1..n -> ProgTextChars] : n \in 0..MaxProgTextLen}

\* no substring, or "A"
ProgSubstrings == {<<>>, <<65>>}

InitProgram ==
    /\ mode \in {"plain", "color"}
    /\ ptext \in ProgTexts
    /\ psub \in (IF mode = "color" THEN ProgSubstrings ELSE {<<>>})
    /\ charMap \in BannerTables
    /\ plines = <<>>
    /\ pidx = 0
    /\ stdout = <<>>
    /\ exitCode = -1
    /\ ppc = "render"
    /\ colorCode = (IF mode = "color" THEN ANSI(Red) ELSE <<>>)
    /\ stages = <<>>
    /\ loadFails = FALSE
    /\ plainOut = NoPlainOut
    /\ ArgIdle
    /\ IoIdle
    /\ RenderIdle
    /\ WidthsIdle
    /\ BuildIdle
    /\ ColorIdle

\* main: result, err := renderer.ASCII(text, charMap); fmt.Print(result)
PlainRender ==
    /\ mode = "plain"
    /\ ppc = "render"
    /\ LET r == ASCII(ptext, charMap) IN
          IF r.err # NoError
          THEN stdout' = stdout /\ exitCode' = exitCodeRenderError
          ELSE stdout' = stdout \o r.out /\ exitCode' = 0
    /\ ppc' = "exited"
    /\ stages' = Append(stages, "render")
    /\ UNCHANGED <<mode, ptext, psub, charMap, plines, pidx,
                   colorCode, loadFails, plainOut,
                   ioVars, renderVars, widthVars, buildVars, colorVars, argVars>>

\* runColorMode: lines := strings.Split(text, "\n")
ColorSplit ==
    /\ mode = "color"
    /\ ppc = "render"
    /\ plines' = Split(ptext)
    /\ pidx' = 0
    /\ ppc' = "loop"
    /\ stages' = Append(stages, "render")
    /\ UNCHANGED <<mode, ptext, psub, charMap, stdout, exitCode,
                   colorCode, loadFails, plainOut,
                   ioVars, renderVars, widthVars, buildVars, colorVars, argVars>>

\* runColorMode: one iteration of for i, line := range lines
ColorLine ==
    /\ mode = "color"
    /\ ppc = "loop"
    /\ pidx < Len(plines)
    /\ LET line == plines[pidx + 1]
           r    == ASCII(line, charMap)
           art  == Split(TrimSuffix(r.out))
           w    == CharWidths(line, charMap)
           c    == ApplyColor(art, line, psub, colorCode, w.w)
       IN  IF line = <<>>
           THEN /\ stdout' = IF blankLinePrinted(pidx, Len(plines))
                             THEN Append(stdout, NewLine) ELSE stdout
                /\ pidx' = pidx + 1
                /\ UNCHANGED <<exitCode, ppc>>
           ELSE IF r.err # NoError
           THEN /\ exitCode' = exitCodeRenderError
                /\ ppc' = "exited"
                /\ UNCHANGED <<stdout, pidx>>
           ELSE IF w.panicked \/ c.panicked
           THEN /\ ppc' = "panicked"
                /\ UNCHANGED <<stdout, pidx, exitCode>>
           ELSE /\ stdout' = stdout \o PrintLines(c.lines)
                /\ pidx' = pidx + 1
                /\ UNCHANGED <<exitCode, ppc>>
    /\ UNCHANGED <<mode, ptext, psub, charMap, plines,
                   colorCode, stages, loadFails, plainOut,
                   ioVars, renderVars, widthVars, buildVars, colorVars, argVars>>

\* runColorMode returns after the last line
ColorReturn ==
    /\ mode = "color"
    /\ ppc = "loop"
    /\ pidx = Len(plines)
    /\ exitCode' = 0
    /\ ppc' = "exited"
    /\ UNCHANGED <<mode, ptext, psub, charMap, plines, pidx, stdout,
                   colorCode, stages, loadFails, plainOut,
                   ioVars, renderVars, widthVars, buildVars, colorVars, argVars>>

NextProgram == PlainRender \/ ColorSplit \/ ColorLine \/ ColorReturn

SpecProgram == InitProgram /\ [][NextProgram]_vars

(***************************************************************************)
(* The same text and banner given to the program twice: first without a    *)
(* color flag (main renders the whole text), then with one (main hands the *)
(* arguments to runColorMode).                                             *)
(***************************************************************************)
InitCompare ==
    /\ InitProgram
    /\ mode = "plain"

\* main: if hasColorFlag(os.Args) { runColorMode(os.Args); return }
RunAgainInColor ==
    /\ mode = "plain"
    /\ ppc = "exited"
    /\ plainOut' = [ran |-> TRUE, out |-> stdout]
    /\ mode' = "color"
    /\ psub' \in ProgSubstrings
    /\ colorCode' = ANSI(Red)
    /\ stdout' = <<>>
    /\ exitCode' = -1
    /\ stages' = <<>>
    /\ ppc' = "render"
    /\ UNCHANGED <<ptext, charMap, plines, pidx, loadFails,
                   ioVars, renderVars, widthVars, buildVars, colorVars, argVars>>

NextCompare ==
    PlainRender \/ RunAgainInColor \/ ColorSplit \/ ColorLine \/ ColorReturn

SpecCompare == InitCompare /\ [][NextCompare]_vars

(***************************************************************************)
(* flagparser.ParseArgs                                                    *)
(***************************************************************************)
minimumArgs == 2

maximumArgs == 5

\* "--color="
colorFlagPrefix == <<45, 45, 99, 111, 108, 111, 114, 61>>

\* strings.HasPrefix(s, prefix)
HasPrefix(s, prefix) == Len(s) >= Len(prefix) /\ SubSeq(s, 1, Len(prefix)) = prefix

\* strings.Index(s, sep), 1-based; 0 when sep does not occur
Index(s, sep) ==
    LET hits == {k \in 1..(Len(s) - Len(sep) + 1) : SubSeq(s, k, k + Len(sep) - 1) = sep}
    IN  IF hits = {} THEN 0 ELSE CHOOSE k \in hits : \A j \in hits : k <= j

\* strings.Cut(s, sep)
Cut(s, sep) ==
    IF Index(s, sep) = 0 THEN [before |-> s, after |-> <<>>, found |-> FALSE]
    ELSE [before |-> SubSeq(s, 1, Index(s, sep) - 1),
          after  |-> SubSeq(s, Index(s, sep) + Len(sep), Len(s)),
          found  |-> TRUE]

\* errUsage
errUsage == GoError("Usage: go run . [OPTION] [STRING]", 0, 0)

countIsWrongNoMax(n) == n < minimumArgs

\* len(args) < minimumArgs || len(args) > maximumArgs
countIsWrong(n) == n < minimumArgs \/ n > maximumArgs

RECURSIVE flagLoop(_, _, _)
\* for i := 1; i < len(args); i++ from the 0-based index k on: TRUE when the
\* loop ends without returning errUsage
flagLoop(av, k, colorFlagCount) ==
    IF ~(k < Len(av)) THEN TRUE
    ELSE IF HasPrefix(av[k + 1], colorFlagPrefix)
         THEN IF colorFlagCount + 1 > 1 THEN FALSE
              ELSE IF k # 1 THEN FALSE
              ELSE flagLoop(av, k + 1, colorFlagCount + 1)
    ELSE flagLoop(av, k + 1, colorFlagCount)

flagparserParseArgs(av) ==
    IF countIsWrong(Len(av)) THEN errUsage
    ELSE IF HasPrefix(av[2], <<45>>) /\ ~HasPrefix(av[2], colorFlagPrefix) THEN errUsage
    ELSE IF ~flagLoop(av, 1, 0) THEN errUsage
    ELSE IF HasPrefix(av[2], colorFlagPrefix) /\ Len(av) < 3 THEN errUsage
    ELSE IF HasPrefix(av[2], colorFlagPrefix)
            /\ (~Cut(av[2], <<61>>).found \/ Cut(av[2], <<61>>).after = <<>>)
         THEN errUsage
    ELSE NoError

(***************************************************************************)
(* The caller of flagparser.ParseArgs.                                     *)
(***************************************************************************)
\* a, -x, --color, --color=, --color=r
ArgStrings ==
    { <<97>>, <<45, 120>>, <<45, 45, 99, 111, 108, 111, 114>>,
      colorFlagPrefix, colorFlagPrefix \o <<114>> }

ArgVectors == UNION {[1..n -> ArgStrings] : n \in 0..MaxArgs}

InitArgs ==
    /\ args \in ArgVectors
    /\ parseErr = NoError
    /\ extracted = NoExtracted
    /\ cspec = <<>>
    /\ cshape = NoShape
    /\ parsed = NoRGB
    /\ apc = "call"
    /\ IoIdle
    /\ RenderIdle
    /\ WidthsIdle
    /\ BuildIdle
    /\ ColorIdle
    /\ ProgIdle

\* err := flagparser.ParseArgs(args)
CallParseArgs ==
    /\ apc = "call"
    /\ parseErr' = flagparserParseArgs(args)
    /\ apc' = "returned"
    /\ UNCHANGED <<args, extracted, cspec, cshape, parsed,
                   ioVars, renderVars, widthVars, buildVars, colorVars, progVars>>

NextArgs == CallParseArgs

SpecArgs == InitArgs /\ [][NextArgs]_vars

(***************************************************************************)
(* extractColorArgs                                                        *)
(***************************************************************************)
\* "standard", "shadow", "thinkertoy"
standardName == <<115, 116, 97, 110, 100, 97, 114, 100>>

shadowName == <<115, 104, 97, 100, 111, 119>>

thinkertoyName == <<116, 104, 105, 110, 107, 101, 114, 116, 111, 121>>

\* the keys of bannerPaths
bannerNames == {standardName, shadowName, thinkertoyName}

defaultBanner == standardName

isValidBannerNever(name) == FALSE

\* _, exists := bannerPaths[name]
isValidBanner(name) == name \in bannerNames

RECURSIVE ReplaceAll(_, _, _)
\* strings.ReplaceAll(s, old, new) for a non-empty old: the non-overlapping
\* occurrences, left to right
ReplaceAll(s, old, new) ==
    IF Len(s) < Len(old) THEN s
    ELSE IF SubSeq(s, 1, Len(old)) = old
         THEN new \o ReplaceAll(SubSeq(s, Len(old) + 1, Len(s)), old, new)
    ELSE <<Head(s)>> \o ReplaceAll(Tail(s), old, new)

\* strings.ReplaceAll(text, "\\n", "\n")
interpretEscapes(s) == ReplaceAll(s, <<92, 110>>, <<NewLine>>)

extractError(msg) ==
    [colorSpec |-> <<>>, substring |-> <<>>, text |-> <<>>, banner |-> <<>>,
     err |-> GoError(msg, 0, 0)]

extractResult(spec, sub, t, b) ==
    [colorSpec |-> spec, substring |-> sub, text |-> interpretEscapes(t), banner |-> b,
     err |-> NoError]

\* for an argument vector of at least two arguments
extractColorArgs(av) ==
    LET spec      == Cut(av[2], <<61>>).after
        remaining == SubSeq(av, 3, Len(av))
    IN  IF Len(remaining) = 0 THEN extractError("missing text argument")
        ELSE IF Len(remaining) = 1
             THEN extractResult(spec, <<>>, remaining[1], defaultBanner)
        ELSE IF Len(remaining) = 2
             THEN IF isValidBanner(remaining[2])
                  THEN extractResult(spec, <<>>, remaining[1], remaining[2])
                  ELSE extractResult(spec, remaining[1], remaining[2], defaultBanner)
        ELSE IF Len(remaining) = 3
             THEN extractResult(spec, remaining[1], remaining[2], remaining[3])
        ELSE extractError("too many arguments")

(***************************************************************************)
(* The caller of extractColorArgs.                                         *)
(***************************************************************************)
\* "--color=", "--color=r", "--color=a=b"
ExtractFlags ==
    {colorFlagPrefix, colorFlagPrefix \o <<114>>, colorFlagPrefix \o <<97, 61, 98>>}

\* "A", "A\nB" with the escape spelled out, and two banner names
ExtractStrings == {<<65>>, <<65, 92, 110, 66>>, shadowName, thinkertoyName}

ExtractVectors ==
    UNION {{<<<<112>>, f>> \o r : f \in ExtractFlags, r \in [1..n -> ExtractStrings]} :
           n \in 0..MaxRemaining}

InitExtract ==
    /\ args \in ExtractVectors
    /\ parseErr = NoError
    /\ extracted = NoExtracted
    /\ cspec = <<>>
    /\ cshape = NoShape
    /\ parsed = NoRGB
    /\ apc = "call"
    /\ IoIdle
    /\ RenderIdle
    /\ WidthsIdle
    /\ BuildIdle
    /\ ColorIdle
    /\ ProgIdle

\* colorSpec, substring, text, bannerName, err := extractColorArgs(args)
CallExtractColorArgs ==
    /\ apc = "call"
    /\ extracted' = extractColorArgs(args)
    /\ apc' = "returned"
    /\ UNCHANGED <<args, parseErr, cspec, cshape, parsed,
                   ioVars, renderVars, widthVars, buildVars, colorVars, progVars>>

NextExtract == CallExtractColorArgs

SpecExtract == InitExtract /\ [][NextExtract]_vars

(***************************************************************************)
(* color.Parse                                                             *)
(***************************************************************************)
rgbComponents == 3

decimalBase == 10

hexBase == 16

uint8Bits == 8

\* black, red, green, yellow, blue, magenta, cyan, white, orange, purple,
\* pink, brown, gray
namedColors ==
  { [name |-> <<98, 108, 97, 99, 107>>, rgb |-> <<0, 0, 0>>],
  [name |-> <<114, 101, 100>>, rgb |-> <<255, 0, 0>>],
  [name |-> <<103, 114, 101, 101, 110>>, rgb |-> <<0, 255, 0>>],
  [name |-> <<121, 101, 108, 108, 111, 119>>, rgb |-> <<255, 255, 0>>],
  [name |-> <<98, 108, 117, 101>>, rgb |-> <<0, 0, 255>>],
  [name |-> <<109, 97, 103, 101, 110, 116, 97>>, rgb |-> <<255, 0, 255>>],
  [name |-> <<99, 121, 97, 110>>, rgb |-> <<0, 255, 255>>],
  [name |-> <<119, 104, 105, 116, 101>>, rgb |-> <<255, 255, 255>>],
  [name |-> <<111, 114, 97, 110, 103, 101>>, rgb |-> <<255, 165, 0>>],
  [name |-> <<112, 117, 114, 112, 108, 101>>, rgb |-> <<128, 0, 128>>],
  [name |-> <<112, 105, 110, 107>>, rgb |-> <<255, 192, 203>>],
  [name |-> <<98, 114, 111, 119, 110>>, rgb |-> <<165, 42, 42>>],
  [name |-> <<103, 114, 97, 121>>, rgb |-> <<128, 128, 128>>] }

\* ErrInvalidFormat, alone or wrapped with a message
ColorError(msg) == GoError(msg, 0, 0)

RGBValue(r, g, b) == [rgb |-> <<r, g, b>>, err |-> NoError]

\* RGB{} with an error
RGBError(msg) == [rgb |-> <<0, 0, 0>>, err |-> ColorError(msg)]

\* the white space of ASCII: tab, line feed, vertical tab, form feed,
\* carriage return, space
isSpace(c) == c \in {9, 10, 11, 12, 13, 32}

RECURSIVE TrimLeft(_)
TrimLeft(s) == IF s # <<>> /\ isSpace(Head(s)) THEN TrimLeft(Tail(s)) ELSE s

RECURSIVE TrimRight(_)
TrimRight(s) ==
    IF s # <<>> /\ isSpace(s[Len(s)]) THEN TrimRight(SubSeq(s, 1, Len(s) - 1)) ELSE s

\* strings.TrimSpace(s)
TrimSpace(s) == TrimRight(TrimLeft(s))

\* strings.ToLower(s) on ASCII
ToLower(s) == [k \in 1..Len(s) |-> IF s[k] \in 65..90 THEN s[k] + 32 ELSE s[k]]

\* strings.HasSuffix(s, suffix)
HasSuffix(s, suffix) ==
    Len(s) >= Len(suffix) /\ SubSeq(s, Len(s) - Len(suffix) + 1, Len(s)) = suffix

\* strings.TrimPrefix(s, prefix)
TrimPrefix(s, prefix) ==
    IF HasPrefix(s, prefix) THEN SubSeq(s, Len(prefix) + 1, Len(s)) ELSE s

\* strings.TrimSuffix(s, suffix)
TrimSuffixOf(s, suffix) ==
    IF HasSuffix(s, suffix) THEN SubSeq(s, 1, Len(s) - Len(suffix)) ELSE s

RECURSIVE SplitOn(_, _, _)
\* strings.Split(s, sep) for a one-character sep; cur is the part under way
SplitOn(s, sep, cur) ==
    IF s = <<>> THEN <<cur>>
    ELSE IF Head(s) = sep THEN <<cur>> \o SplitOn(Tail(s), sep, <<>>)
    ELSE SplitOn(Tail(s), sep, Append(cur, Head(s)))

\* the value of the digit c, -1 when c is no digit
digitValue(c) ==
    IF c \in 48..57 THEN c - 48
    ELSE IF c \in 97..122 THEN c - 97 + 10
    ELSE IF c \in 65..90 THEN c - 65 + 10
    ELSE -1

maxValueLoose(bitSize) == 2 ^ bitSize

\* the largest value of bitSize bits
maxValue(bitSize) == 2 ^ bitSize - 1

RECURSIVE parseUintFrom(_, _, _, _)
\* the digit loop of strconv.ParseUint: n is the value so far
parseUintFrom(s, base, bitSize, n) ==
    IF s = <<>> THEN [value |-> n, ok |-> TRUE]
    ELSE IF digitValue(Head(s)) < 0 \/ digitValue(Head(s)) >= base
         THEN [value |-> 0, ok |-> FALSE]
    ELSE IF n * base + digitValue(Head(s)) > maxValue(bitSize)
         THEN [value |-> maxValue(bitSize), ok |-> FALSE]
    ELSE parseUintFrom(Tail(s), base, bitSize, n * base + digitValue(Head(s)))

\* strconv.ParseUint(s, base, bitSize) for base 10 or 16
ParseUint(s, base, bitSize) ==
    IF s = <<>> THEN [value |-> 0, ok |-> FALSE]
    ELSE parseUintFrom(s, base, bitSize, 0)

\* for a hex of 7 characters
parseHex(hex) ==
    LET r == ParseUint(SubSeq(hex, 2, 3), hexBase, uint8Bits)
        g == ParseUint(SubSeq(hex, 4, 5), hexBase, uint8Bits)
        b == ParseUint(SubSeq(hex, 6, 7), hexBase, uint8Bits)
    IN  IF ~r.ok THEN RGBError("invalid red hex")
        ELSE IF ~g.ok THEN RGBError("invalid green hex")
        ELSE IF ~b.ok THEN RGBError("invalid blue hex")
        ELSE RGBValue(r.value, g.value, b.value)

\* "rgb("
rgbPrefix == <<114, 103, 98, 40>>

componentCountIsWrongBelow(n) == n < rgbComponents

\* len(parts) != rgbComponents
componentCountIsWrong(n) == n # rgbComponents

parseRGB(rgbStr) ==
    IF ~HasSuffix(rgbStr, <<41>>) THEN RGBError("missing closing parenthesis")
    ELSE LET content == TrimSpace(TrimSuffixOf(TrimPrefix(rgbStr, rgbPrefix), <<41>>))
             parts   == SplitOn(content, 44, <<>>)
             values  == [k \in 1..Len(parts) |->
                            ParseUint(TrimSpace(parts[k]), decimalBase, uint8Bits)]
         IN  IF content = <<>> THEN RGBError("rgb() components cannot be empty")
             ELSE IF componentCountIsWrong(Len(parts))
                  THEN RGBError("rgb() requires exactly 3 components")
             ELSE IF \E k \in 1..Len(parts) : ~values[k].ok
                  THEN RGBError("invalid rgb() component")
             ELSE RGBValue(values[1].value, values[2].value, values[3].value)

\* len(colorSpec) == 7 && colorSpec[0] == '#', for a non-empty colorSpec
isHexForm(s) == Len(s) = 7 /\ s[1] = 35

Parse(colorSpec) ==
    LET trimmed == TrimSpace(colorSpec)
        lower   == ToLower(trimmed)
    IN  IF trimmed = <<>> THEN RGBError("empty color specification")
        ELSE IF \E c \in namedColors : c.name = lower
             THEN LET c == CHOOSE c \in namedColors : c.name = lower
                  IN  RGBValue(c.rgb[1], c.rgb[2], c.rgb[3])
        ELSE IF isHexForm(trimmed) THEN parseHex(trimmed)
        ELSE IF HasPrefix(lower, rgbPrefix) THEN parseRGB(lower)
        ELSE RGBError("unknown color format")

(***************************************************************************)
(* The caller of color.Parse.                                              *)
(***************************************************************************)
\* the components of an rgb() form as written, with the number each one
\* spells: 0, 255, 9 between spaces, 256, and -1 for 1x and for nothing
Components ==
    { [txt |-> <<48>>, val |-> 0], [txt |-> <<50, 53, 53>>, val |-> 255],
      [txt |-> <<32, 57, 32>>, val |-> 9], [txt |-> <<50, 53, 54>>, val |-> 256],
      [txt |-> <<49, 120>>, val |-> -1], [txt |-> <<>>, val |-> -1] }

RECURSIVE JoinComponents(_)
\* the components separated by commas
JoinComponents(cs) ==
    IF cs = <<>> THEN <<>>
    ELSE IF Len(cs) = 1 THEN cs[1].txt
    ELSE cs[1].txt \o <<44>> \o JoinComponents(Tail(cs))

\* an rgb() form: pad, prefix, components, the closing parenthesis or not, pad
RgbSpec(pad, pre, cs, closed) ==
    pad \o pre \o JoinComponents(cs) \o (IF closed THEN <<41>> ELSE <<>>) \o pad

RgbTag(cs, closed) ==
    [form |-> "rgb", comps |-> [k \in 1..Len(cs) |-> cs[k].val], closed |-> closed]

\* rgb( and RGB(
RgbPrefixes == {rgbPrefix, <<82, 71, 66, 40>>}

ComponentLists == UNION {[1..n -> Components] : n \in 1..MaxComponents}

\* F, a and g, which is no hex digit
HexChars == {70, 97, 103}

\* what follows the '#' of a # form: 5 to MaxHexDigits characters
HexDigitLists == UNION {[1..n -> HexChars] : n \in 5..MaxHexDigits}

HexTag == [form |-> "hex", comps |-> <<>>, closed |-> TRUE]

\* red, RED, pink between spaces, gray; then nope, rgb, #, nothing, two spaces
NameShapes ==
    { [spec |-> <<114, 101, 100>>,
       tag |-> [form |-> "name", comps |-> <<255, 0, 0>>, closed |-> TRUE]],
      [spec |-> <<82, 69, 68>>,
       tag |-> [form |-> "name", comps |-> <<255, 0, 0>>, closed |-> TRUE]],
      [spec |-> <<32, 80, 105, 110, 107, 32>>,
       tag |-> [form |-> "name", comps |-> <<255, 192, 203>>, closed |-> TRUE]],
      [spec |-> <<103, 114, 97, 121>>,
       tag |-> [form |-> "name", comps |-> <<128, 128, 128>>, closed |-> TRUE]],
      [spec |-> <<110, 111, 112, 101>>,
       tag |-> [form |-> "name", comps |-> <<>>, closed |-> TRUE]],
      [spec |-> <<114, 103, 98>>,
       tag |-> [form |-> "name", comps |-> <<>>, closed |-> TRUE]],
      [spec |-> <<35>>,
       tag |-> [form |-> "name", comps |-> <<>>, closed |-> TRUE]],
      [spec |-> <<>>,
       tag |-> [form |-> "blank", comps |-> <<>>, closed |-> TRUE]],
      [spec |-> <<32, 32>>,
       tag |-> [form |-> "blank", comps |-> <<>>, closed |-> TRUE]] }

InitParse ==
    /\ \/ \E sh \in NameShapes : cspec = sh.spec /\ cshape = sh.tag
       \/ \E ds \in HexDigitLists : cspec = <<35>> \o ds /\ cshape = HexTag
       \/ \E pad \in {<<>>, <<32>>}, pre \in RgbPrefixes, cs \in ComponentLists,
             closed \in BOOLEAN :
                /\ cspec = RgbSpec(pad, pre, cs, closed)
                /\ cshape = RgbTag(cs, closed)
    /\ args = <<>>
    /\ parseErr = NoError
    /\ extracted = NoExtracted
    /\ parsed = NoRGB
    /\ apc = "call"
    /\ IoIdle
    /\ RenderIdle
    /\ WidthsIdle
    /\ BuildIdle
    /\ ColorIdle
    /\ ProgIdle

\* rgb, err := color.Parse(colorSpec)
CallParse ==
    /\ apc = "call"
    /\ parsed' = Parse(cspec)
    /\ apc' = "returned"
    /\ UNCHANGED <<args, parseErr, extracted, cspec, cshape,
                   ioVars, renderVars, widthVars, buildVars, colorVars, progVars>>

NextParse == CallParse

SpecParse == InitParse /\ [][NextParse]_vars

(***************************************************************************)
(* The program from its argument vector on: main, and runColorMode when    *)
(* the first argument is a color flag.  Each stage is one step; a failing  *)
(* stage ends the run with its exit code.                                  *)
(***************************************************************************)
exitCodeUsageError == 1

exitCodeBannerError == 2

exitCodeColorErrorAsUsage == 2 - 1

exitCodeColorError == 4

\* "--color"
colorFlagName == <<45, 45, 99, 111, 108, 111, 114>>

hasColorFlagWithValue(av) == Len(av) > 1 /\ HasPrefix(av[2], colorFlagPrefix)

\* len(args) > 1 && strings.HasPrefix(args[1], "--color")
hasColorFlag(av) == Len(av) > 1 /\ HasPrefix(av[2], colorFlagName)

\* main.ParseArgs: text, banner, err
mainParseArgs(av) ==
    IF Len(av) < 2 THEN extractError("usage: go run . \"text\" [banner]")
    ELSE IF Len(av) > 3
         THEN extractError("too many arguments\nusage: go run . \"text\" [banner]")
    ELSE [colorSpec |-> <<>>, substring |-> <<>>,
          text |-> ReplaceAll(av[2], <<92, 110>>, <<NewLine>>),
          banner |-> IF Len(av) = 3 THEN av[3] ELSE defaultBanner,
          err |-> NoError]

bannerPaths ==
    (standardName :> "testdata/standard.txt")
        @@ (shadowName :> "testdata/shadow.txt")
        @@ (thinkertoyName :> "testdata/thinkertoy.txt")

\* path, exists := bannerPaths[banner]
GetBannerPath(name) ==
    IF name \notin DOMAIN bannerPaths
    THEN [path |-> "", err |-> GoError("invalid banner name", 0, 0)]
    ELSE [path |-> bannerPaths[name], err |-> NoError]

\* the embedded banner files, each as the table it parses to
GetBannerFS ==
    ("testdata/standard.txt" :> FullTable(StandardWidth))
        @@ ("testdata/shadow.txt" :> FullTable(ShadowWidth))
        @@ ("testdata/thinkertoy.txt" :> FullTable(ThinkertoyWidth))

\* parser.LoadBanner(GetBannerFS(), path); fails is whether the read fails
LoadBanner(fsys, path, fails) ==
    IF fails THEN [m |-> <<>>, err |-> GoError("failed to read banner file", 0, 0)]
    ELSE [m |-> fsys[path], err |-> NoError]

\* "--color=red", "--color=zz", "--color=", "--color", "--color:red"
MainFlags ==
    { colorFlagPrefix \o <<114, 101, 100>>, colorFlagPrefix \o <<122, 122>>,
      colorFlagPrefix, colorFlagName, colorFlagName \o <<58, 114, 101, 100>> }

\* "A" and a tab, which no banner holds
MainTexts == {<<65>>, <<9>>}

\* no banner argument, "shadow", "x"
MainBanners == {<<>>, <<shadowName>>, <<<<120>>>>}

\* no flag, one flag, or a flag followed by a second "--color=" flag
MainFlagLists ==
    {<<>>} \cup {<<f>> : f \in MainFlags}
        \cup {<<f, g>> : f \in MainFlags, g \in {h \in MainFlags : HasPrefix(h, colorFlagPrefix)}}

MainTextLists == UNION {[1..n -> MainTexts] : n \in 1..MaxMainTexts}

\* the program name, then flags, then texts, then a banner name
MainVectors ==
    {<<<<112>>>> \o f : f \in MainFlagLists}
        \cup {<<<<112>>>> \o f \o t \o b :
                 f \in MainFlagLists, t \in MainTextLists, b \in MainBanners}

InitMain ==
    /\ args \in MainVectors
    /\ loadFails \in BOOLEAN
    /\ mode = "start"
    /\ ppc = "main"
    /\ ptext = <<>>
    /\ psub = <<>>
    /\ charMap = <<>>
    /\ plines = <<>>
    /\ pidx = 0
    /\ stdout = <<>>
    /\ exitCode = -1
    /\ colorCode = <<>>
    /\ stages = <<>>
    /\ plainOut = NoPlainOut
    /\ parseErr = NoError
    /\ extracted = NoExtracted
    /\ cspec = <<>>
    /\ cshape = NoShape
    /\ parsed = NoRGB
    /\ apc = "idle"
    /\ IoIdle
    /\ RenderIdle
    /\ WidthsIdle
    /\ BuildIdle
    /\ ColorIdle

\* main: if hasColorFlag(os.Args) { runColorMode(os.Args); return }
MainRoute ==
    /\ ppc = "main"
    /\ IF hasColorFlag(args)
       THEN mode' = "color" /\ ppc' = "validate"
       ELSE mode' = "plain" /\ ppc' = "arguments"
    /\ UNCHANGED <<ptext, psub, charMap, plines, pidx, stdout, exitCode,
                   colorCode, stages, loadFails, plainOut,
                   ioVars, renderVars, widthVars, buildVars, colorVars, argVars>>

\* runColorMode: if err := flagparser.ParseArgs(args); err != nil
ColorValidate ==
    /\ ppc = "validate"
    /\ parseErr' = flagparserParseArgs(args)
    /\ stages' = Append(stages, "validate")
    /\ IF parseErr' # NoError
       THEN exitCode' = exitCodeUsageError /\ ppc' = "exited"
       ELSE exitCode' = exitCode /\ ppc' = "extract"
    /\ UNCHANGED <<mode, ptext, psub, charMap, plines, pidx, stdout,
                   colorCode, loadFails, plainOut,
                   args, extracted, cspec, cshape, parsed, apc,
                   ioVars, renderVars, widthVars, buildVars, colorVars>>

\* runColorMode: colorSpec, substring, text, bannerName, err := extractColorArgs(args)
ColorExtract ==
    /\ ppc = "extract"
    /\ extracted' = extractColorArgs(args)
    /\ stages' = Append(stages, "extract")
    /\ IF extracted'.err # NoError
       THEN /\ exitCode' = exitCodeUsageError
            /\ ppc' = "exited"
            /\ UNCHANGED <<ptext, psub>>
       ELSE /\ ptext' = extracted'.text
            /\ psub' = extracted'.substring
            /\ exitCode' = exitCode
            /\ ppc' = "color"
    /\ UNCHANGED <<mode, charMap, plines, pidx, stdout,
                   colorCode, loadFails, plainOut,
                   args, parseErr, cspec, cshape, parsed, apc,
                   ioVars, renderVars, widthVars, buildVars, colorVars>>

\* runColorMode: rgb, err := color.Parse(colorSpec)
ColorParse ==
    /\ ppc = "color"
    /\ cspec' = extracted.colorSpec
    /\ parsed' = Parse(extracted.colorSpec)
    /\ stages' = Append(stages, "color")
    /\ IF parsed'.err # NoError
       THEN exitCode' = exitCodeColorError /\ ppc' = "exited"
       ELSE exitCode' = exitCode /\ ppc' = "resolve"
    /\ UNCHANGED <<mode, ptext, psub, charMap, plines, pidx, stdout,
                   colorCode, loadFails, plainOut,
                   args, parseErr, extracted, cshape, apc,
                   ioVars, renderVars, widthVars, buildVars, colorVars>>

\* main: text, banner, err := ParseArgs(os.Args)
PlainArguments ==
    /\ ppc = "arguments"
    /\ extracted' = mainParseArgs(args)
    /\ stages' = Append(stages, "arguments")
    /\ IF extracted'.err # NoError
       THEN /\ exitCode' = exitCodeUsageError
            /\ ppc' = "exited"
            /\ ptext' = ptext
       ELSE /\ ptext' = extracted'.text
            /\ exitCode' = exitCode
            /\ ppc' = "resolve"
    /\ UNCHANGED <<mode, psub, charMap, plines, pidx, stdout,
                   colorCode, loadFails, plainOut,
                   args, parseErr, cspec, cshape, parsed, apc,
                   ioVars, renderVars, widthVars, buildVars, colorVars>>

\* main, runColorMode: bannerPath, err := GetBannerPath(bannerName)
ResolveBanner ==
    /\ ppc = "resolve"
    /\ stages' = Append(stages, "resolve")
    /\ IF GetBannerPath(extracted.banner).err # NoError
       THEN exitCode' = exitCodeUsageError /\ ppc' = "exited"
       ELSE exitCode' = exitCode /\ ppc' = "load"
    /\ UNCHANGED <<mode, ptext, psub, charMap, plines, pidx, stdout,
                   colorCode, loadFails, plainOut,
                   ioVars, renderVars, widthVars, buildVars, colorVars, argVars>>

\* main, runColorMode: charMap, err := parser.LoadBanner(...); in color mode
\* then colorCode := color.ANSI(rgb)
LoadStage ==
    /\ ppc = "load"
    /\ stages' = Append(stages, "load")
    /\ LET r == LoadBanner(GetBannerFS, GetBannerPath(extracted.banner).path, loadFails)
       IN  IF r.err # NoError
           THEN /\ exitCode' = exitCodeBannerError
                /\ ppc' = "exited"
                /\ UNCHANGED <<charMap, colorCode>>
           ELSE /\ charMap' = r.m
                /\ colorCode' = IF mode = "color"
                                THEN ANSI([R |-> parsed.rgb[1], G |-> parsed.rgb[2],
                                           B |-> parsed.rgb[3]])
                                ELSE colorCode
                /\ exitCode' = exitCode
                /\ ppc' = "render"
    /\ UNCHANGED <<mode, ptext, psub, plines, pidx, stdout, loadFails, plainOut,
                   ioVars, renderVars, widthVars, buildVars, colorVars, argVars>>

NextMain ==
    \/ MainRoute
    \/ ColorValidate
    \/ ColorExtract
    \/ ColorParse
    \/ PlainArguments
    \/ ResolveBanner
    \/ LoadStage
    \/ PlainRender
    \/ ColorSplit
    \/ ColorLine
    \/ ColorReturn

SpecMain == InitMain /\ [][NextMain]_vars

(***************************************************************************)
(* Vocabulary of the properties of renderer.ASCII.                         *)
(***************************************************************************)
RECURSIVE Concat(_)
\* the concatenation of a sequence of strings
Concat(ss) == IF ss = <<>> THEN <<>> ELSE Head(ss) \o Concat(Tail(ss))

\* index of the first line break of s, Len(s) + 1 when it has none
FirstBreak(s) ==
    IF \E k \in 1..Len(s) : s[k] = NewLine
    THEN CHOOSE k \in 1..Len(s) :
            s[k] = NewLine /\ \A j \in 1..(k - 1) : s[j] # NewLine
    ELSE Len(s) + 1

RECURSIVE RowsOf(_)
\* the rows of a string: every line break ends a row, and what follows the
\* last line break is a row when it is not empty
RowsOf(s) ==
    IF s = <<>> THEN <<>>
    ELSE <<SubSeq(s, 1, FirstBreak(s) - 1)>>
            \o RowsOf(SubSeq(s, FirstBreak(s) + 1, Len(s)))

\* the logical lines of a text: its segments between line breaks, a trailing
\* empty segment dropped
LogicalLines(s) == RowsOf(s)

IsValidText(s) == \A k \in 1..Len(s) : s[k] = NewLine \/ s[k] \in 32..126

HasGoodGlyph(m, ch) == ch \in DOMAIN m /\ Len(m[ch].rows) = bannerHeight

\* row r (1-based) of the block of a non-empty logical line
BlockRow(line, m, r) == Concat([k \in 1..Len(line) |-> m[line[k]].rows[r]])

\* the block of one logical line
Block(line, m) ==
    IF line = <<>> THEN << <<>> >>
    ELSE [r \in 1..bannerHeight |-> BlockRow(line, m, r)]

\* the rows of all blocks of a text, in order
ExpectedRows(s, m) ==
    Concat([p \in 1..Len(LogicalLines(s)) |-> Block(LogicalLines(s)[p], m)])

\* index of the first character of s that is no line break and satisfies Bad
FirstIndex(s, Bad(_)) ==
    CHOOSE k \in 1..Len(s) :
        /\ s[k] # NewLine /\ Bad(s[k])
        /\ \A j \in 1..(k - 1) : s[j] = NewLine \/ ~Bad(s[j])

\* rows joined by single line breaks, none after the last row
JoinRows(rows) ==
    Concat([k \in 1..Len(rows) |->
              IF k < Len(rows) THEN Append(rows[k], NewLine) ELSE rows[k]])

\* rows each followed by one line break
TerminateRows(rows) == Concat([k \in 1..Len(rows) |-> Append(rows[k], NewLine)])

(***************************************************************************)
(* C1.  A non-empty text of characters in [32,126] without line break,     *)
(* rendered against a table holding an 8-row glyph for each of its         *)
(* characters, succeeds with exactly 8 rows; row r is the concatenation,   *)
(* in character order, of row r of each character's glyph, so its length   *)
(* is the sum of the lengths of those glyph rows.                          *)
(***************************************************************************)
C1_Case ==
    /\ pc = "returned"
    /\ input # <<>>
    /\ \A k \in 1..Len(input) : input[k] \in 32..126 /\ HasGoodGlyph(banner, input[k])

C1_RowsConcatenateGlyphRows ==
    C1_Case =>
        /\ err = NoError
        /\ Len(RowsOf(out)) = bannerHeight
        /\ \A r \in 1..bannerHeight :
              /\ RowsOf(out)[r] = BlockRow(input, banner, r)
              /\ Len(RowsOf(out)[r]) =
                    SumSeq([k \in 1..Len(input) |-> Len(banner[input[k]].rows[r])])

C1_Witness ==
    /\ C1_Case
    /\ Len(input) >= 2
    /\ input[1] # input[2]
    /\ Len(RowsOf(out)) = bannerHeight

(***************************************************************************)
(* C2.  A text holding a character other than the line break outside      *)
(* [32,126] is rejected with the invalid-character error of its first such *)
(* character and an empty output, whatever the table holds and wherever    *)
(* the character stands.                                                   *)
(***************************************************************************)
C2_Outside(ch) == ch \notin 32..126

C2_Case == pc = "returned" /\ ~IsValidText(input)

C2_InvalidTextRejected ==
    C2_Case =>
        /\ out = <<>>
        /\ err = GoError("invalid character", input[FirstIndex(input, C2_Outside)], 0)

C2_Witness ==
    /\ C2_Case
    /\ Len(input) >= 2
    /\ input[1] \in 32..126
    /\ input[Len(input)] = 9
    /\ 9 \in DOMAIN banner
    /\ err.kind = "invalid character"

(***************************************************************************)
(* C3.  For a valid non-empty text and a non-empty table, when some        *)
(* character of the text is absent from the table or has a glyph whose row *)
(* count is not 8, the output is empty and the error is that of the first  *)
(* such character in text order: missing when absent, corrupt otherwise.   *)
(***************************************************************************)
C3_Offending(ch) == ~HasGoodGlyph(banner, ch)

C3_Case ==
    /\ pc = "returned"
    /\ input # <<>>
    /\ IsValidText(input)
    /\ MapLen(banner) # 0
    /\ \E k \in 1..Len(input) : input[k] # NewLine /\ C3_Offending(input[k])

C3_FirstOffendingGlyphReported ==
    C3_Case =>
        LET ch == input[FirstIndex(input, C3_Offending)] IN
        /\ out = <<>>
        /\ err = IF ch \notin DOMAIN banner
                 THEN GoError("not found in banner", ch, 0)
                 ELSE GoError("wrong line count", ch, Len(banner[ch].rows))

C3_Witness ==
    /\ C3_Case
    /\ Len(input) >= 3
    /\ HasGoodGlyph(banner, input[1])
    /\ input[2] = NewLine
    /\ input[3] \in DOMAIN banner
    /\ err.kind = "wrong line count"

(***************************************************************************)
(* C4.  Against the table with zero entries a valid text gives empty       *)
(* output and no error when it is empty, and empty output and the          *)
(* empty-table error when it is not.                                       *)
(***************************************************************************)
C4_Case == pc = "returned" /\ MapLen(banner) = 0 /\ IsValidText(input)

C4_EmptyTextBeforeEmptyTable ==
    C4_Case =>
        /\ out = <<>>
        /\ err = IF input = <<>> THEN NoError ELSE GoError("banner is empty", 0, 0)

C4_Witness == C4_Case /\ input # <<>> /\ err.kind = "banner is empty"

(***************************************************************************)
(* C5.  The rows of a successfully rendered text are the blocks of its     *)
(* logical lines in order: 8 rows for a non-empty logical line, one empty  *)
(* row for an empty one.                                                   *)
(***************************************************************************)
C5_Case == pc = "returned" /\ IsValidText(input) /\ err = NoError

C5_OneBlockPerLogicalLine ==
    C5_Case =>
        /\ RowsOf(out) = ExpectedRows(input, banner)
        /\ Len(RowsOf(out)) =
              SumSeq([p \in 1..Len(LogicalLines(input)) |->
                        IF LogicalLines(input)[p] = <<>> THEN 1 ELSE bannerHeight])

C5_Witness ==
    /\ C5_Case
    /\ input = <<65, NewLine, NewLine, 66>>
    /\ Len(RowsOf(out)) = 2 * bannerHeight + 1

(***************************************************************************)
(* C6.  Rendering a non-empty valid text that does not end with a line     *)
(* break, and rendering it with one line break appended, give the same     *)
(* result.                                                                 *)
(***************************************************************************)
C6_Case ==
    /\ pc = "returned"
    /\ appended
    /\ Len(input) >= 2
    /\ IsValidText(input)
    /\ input[Len(input) - 1] # NewLine

C6_TrailingBreakAddsNothing == C6_Case => out = prevOut /\ err = prevErr

C6_Witness == C6_Case /\ err = NoError /\ out # <<>>

(***************************************************************************)
(* C7, as stated.  The string returned for a valid non-empty text is its   *)
(* rows joined by single line breaks, with none after the last row.        *)
(***************************************************************************)
C7_Case == pc = "returned" /\ input # <<>> /\ IsValidText(input) /\ err = NoError

C8_Case == bpc = "done" /\ Len(lines) = 855

\* the line at 0-based index j
C8_LineAt(j) == lines[j + 1]

C9_Case == bpc = "done" /\ Len(lines) # 855

C9_WrongLineCountRejected ==
    C9_Case =>
        /\ bret = NilBanner
        /\ berr = IF Len(lines) = 0
                  THEN GoError("empty banner file", 0, 0)
                  ELSE GoError("invalid format", 0, Len(lines))

C9_Witness == C9_Case /\ Len(lines) > 855 /\ berr.kind = "invalid format"

(***************************************************************************)
(* C10, as stated.  CharWidths returns one entry per code point of the     *)
(* text; entry k is the length of row 0 of the glyph of the k-th character *)
(* when the table holds that character, and 0 otherwise.  (Stated for the  *)
(* tables in which every glyph has a row 0.)                               *)
(***************************************************************************)
C10_Case ==
    /\ pc = "returned"
    /\ \A c \in DOMAIN banner : banner[c].rows # <<>>

C10_OneWidthPerCodePoint ==
    C10_Case =>
        /\ ~widths.panicked
        /\ Len(widths.w) = Len(input)
        /\ \A k \in 1..Len(input) :
              widths.w[k] = IF input[k] \in DOMAIN banner
                            THEN Len(banner[input[k]].rows[1])
                            ELSE 0

(***************************************************************************)
(* C11, as stated.  CharWidths never fails, whatever the text and the      *)
(* table (empty, missing characters of the text, holding a glyph with a    *)
(* wrong number of rows); a character without a usable glyph contributes   *)
(* width 0.                                                                *)
(***************************************************************************)
C11_NoUsableGlyph(ch) == ch \notin DOMAIN banner \/ banner[ch].rows = <<>>

C11_CharWidthsNeverFails ==
    pc = "returned" =>
        /\ ~widths.panicked
        /\ \A k \in 1..Len(input) :
              C11_NoUsableGlyph(input[k]) =>
                  widths.w[ByteLen(SubSeq(input, 1, k - 1)) + 1] = 0

(***************************************************************************)
(* Vocabulary of the properties of coloring.ApplyColor.                    *)
(***************************************************************************)
\* p occurs in s at the 1-based index k
OccursAt(p, s, k) == k + Len(p) - 1 <= Len(s) /\ SubSeq(s, k, k + Len(p) - 1) = p

RECURSIVE TokensFrom(_, _, _)
\* an output line read from index k on as color codes, resets and art columns
TokensFrom(s, code, k) ==
    IF k > Len(s) THEN <<>>
    ELSE IF OccursAt(code, s, k)
         THEN <<[kind |-> "color", ch |-> 0]>> \o TokensFrom(s, code, k + Len(code))
    ELSE IF OccursAt(Reset, s, k)
         THEN <<[kind |-> "reset", ch |-> 0]>> \o TokensFrom(s, code, k + Len(Reset))
    ELSE <<[kind |-> "art", ch |-> s[k]]>> \o TokensFrom(s, code, k + 1)

Tokens(s) == TokensFrom(s, testColorCode, 1)

RECURSIVE ColumnsFrom(_, _, _)
\* the columns (number of art columns to the left) of the markers of a kind
ColumnsFrom(toks, kind, col) ==
    IF toks = <<>> THEN <<>>
    ELSE IF Head(toks).kind = kind
         THEN <<col>> \o ColumnsFrom(Tail(toks), kind, col)
    ELSE IF Head(toks).kind = "art"
         THEN ColumnsFrom(Tail(toks), kind, col + 1)
    ELSE ColumnsFrom(Tail(toks), kind, col)

ColorColumns(s) == ColumnsFrom(Tokens(s), "color", 0)

ResetColumns(s) == ColumnsFrom(Tokens(s), "reset", 0)

IsArtToken(tok) == tok.kind = "art"

\* an output line with the color codes and resets deleted
Strip(s) ==
    LET arts == SelectSeq(Tokens(s), IsArtToken)
    IN  [k \in 1..Len(arts) |-> arts[k].ch]

\* sub occurs literally in t at the 0-based start offset st
Occurs(t, sub, st) ==
    st >= 0 /\ st + Len(sub) <= Len(t) /\ SubSeq(t, st + 1, st + Len(sub)) = sub

\* the 0-based position p of t is covered by an occurrence of sub
Marked(t, sub, p) ==
    sub = <<>> \/ \E st \in 0..p : Occurs(t, sub, st) /\ p < st + Len(sub)

\* the 0-based positions of t that satisfy Test, ascending
PositionsWhere(t, Test(_)) == SelectSeq([k \in 1..Len(t) |-> k - 1], Test)

RunStarts(t, sub) ==
    LET IsStart(p) == Marked(t, sub, p) /\ (p = 0 \/ ~Marked(t, sub, p - 1))
    IN  PositionsWhere(t, IsStart)

RunEnds(t, sub) ==
    LET IsEnd(p) == Marked(t, sub, p) /\ (p = Len(t) - 1 \/ ~Marked(t, sub, p + 1))
    IN  PositionsWhere(t, IsEnd)

\* sum(widths[0..p-1]): the column at which character p starts
ColumnOf(cw, p) == SumSeq(SubSeq(cw, 1, p))

Aligned ==
    /\ Len(charWidths) = Len(text)
    /\ \A k \in 1..Len(asciiArt) : Len(asciiArt[k]) = SumSeq(charWidths)

(***************************************************************************)
(* C12: for aligned inputs every output line of ApplyColor has one color   *)
(* code and one reset per maximal run of marked positions, the color code  *)
(* at column sum(widths[0..s-1]) and the reset at column sum(widths[0..e]) *)
(* of the run s..e, the same on every art line.                            *)
(***************************************************************************)
C12_Case == cpc = "returned" /\ Aligned /\ asciiArt # <<>>

C12_OneSpanPerRun ==
    C12_Case =>
        /\ ~colored.panicked
        /\ \A k \in 1..Len(asciiArt) :
              /\ ColorColumns(colored.lines[k]) =
                    [r \in 1..Len(RunStarts(text, substring)) |->
                        ColumnOf(charWidths, RunStarts(text, substring)[r])]
              /\ ResetColumns(colored.lines[k]) =
                    [r \in 1..Len(RunEnds(text, substring)) |->
                        ColumnOf(charWidths, RunEnds(text, substring)[r] + 1)]

(***************************************************************************)
(* C13: findPositions marks position p iff the substring is empty or       *)
(* occurs at a start offset i with i <= p < i + len(substring), all        *)
(* occurrences counting; the result has one entry per character of text.   *)
(***************************************************************************)
C13_Case == fpc = "returned"

C13_UnionOfMatchWindows ==
    C13_Case =>
        /\ Len(positions) = Len(text)
        /\ \A p \in 0..(Len(text) - 1) :
              positions[p + 1] <=>
                  \/ substring = <<>>
                  \/ \E st \in 0..(Len(text) - Len(substring)) :
                        /\ \A q \in 1..Len(substring) : text[st + q] = substring[q]
                        /\ st <= p
                        /\ p < st + Len(substring)
        /\ (Len(substring) > Len(text) => \A p \in 1..Len(text) : ~positions[p])

\* "aaa" / "aa": two overlapping occurrences, every position marked
C13_Witness ==
    /\ C13_Case
    /\ text = <<97, 97, 97>>
    /\ substring = <<97, 97>>
    /\ positions = <<TRUE, TRUE, TRUE>>

(***************************************************************************)
(* C14: with an empty substring and aligned inputs every output line of    *)
(* ApplyColor is colorCode, the art line, Reset.                           *)
(***************************************************************************)
C14_Case == cpc = "returned" /\ Aligned /\ substring = <<>> /\ text # <<>>

C14_WholeLineWrapped ==
    C14_Case =>
        /\ ~colored.panicked
        /\ \A k \in 1..Len(asciiArt) :
              colored.lines[k] = testColorCode \o asciiArt[k] \o Reset

(***************************************************************************)
(* C15: "banana" / "ana" with all widths 1 on the art line "banana" gives  *)
(* one colored span.  As stated the span covers positions 1-3; the span    *)
(* the code produces covers positions 1-5, the union of the occurrences    *)
(* at offsets 1 and 3.                                                     *)
(***************************************************************************)
C15_Banana == <<98, 97, 110, 97, 110, 97>>

C15_Case ==
    /\ cpc = "returned"
    /\ text = C15_Banana
    /\ substring = <<97, 110, 97>>
    /\ charWidths = <<1, 1, 1, 1, 1, 1>>
    /\ asciiArt = <<C15_Banana>>

\* C15 as stated: one span, positions 1-3
C15_Original_SpanOneToThree ==
    C15_Case =>
        /\ ~colored.panicked
        /\ ColorColumns(colored.lines[1]) = <<1>>
        /\ ResetColumns(colored.lines[1]) = <<4>>

\* C15 amended: one span, positions 1-5
C15_SpanOneToFive ==
    C15_Case =>
        /\ ~colored.panicked
        /\ Len(colored.lines) = 1
        /\ ColorColumns(colored.lines[1]) = <<1>>
        /\ ResetColumns(colored.lines[1]) = <<6>>

C15_Witness ==
    /\ C15_Case
    /\ colored.lines = << <<98>> \o testColorCode \o <<97, 110, 97, 110, 97>> \o Reset >>

(***************************************************************************)
(* C16: when the substring is non-empty and occurs nowhere in text, every  *)
(* output line of ApplyColor equals the input art line, whatever the       *)
(* widths and the line lengths.                                            *)
(***************************************************************************)
C16_Case ==
    /\ cpc = "returned"
    /\ substring # <<>>
    /\ \A st \in 0..Len(text) : ~Occurs(text, substring, st)

C16_AbsentSubstringLeavesArt ==
    C16_Case =>
        /\ ~colored.panicked
        /\ colored.lines = asciiArt

(***************************************************************************)
(* C17: ApplyColor returns the art unmodified when the art, the widths or  *)
(* the text is empty, and otherwise returns as many lines as it was given. *)
(***************************************************************************)
C17_Degenerate == asciiArt = <<>> \/ charWidths = <<>> \/ text = <<>>

C17_IdentityOrSameLineCount ==
    cpc = "returned" =>
        /\ ~colored.panicked
        /\ C17_Degenerate => colored.lines = asciiArt
        /\ Len(colored.lines) = Len(asciiArt)

(***************************************************************************)
(* C18: when ApplyColor returns, deleting the color codes and resets from  *)
(* an output line gives the input art line, and what the line has beyond   *)
(* the sum of the widths ends the output line verbatim.                    *)
(***************************************************************************)
C18_Case == cpc = "returned" /\ ~colored.panicked

C18_Tail(s, n) == SubSeq(s, Len(s) - n + 1, Len(s))

C18_MarkersOnlyInserted ==
    C18_Case =>
        /\ Len(colored.lines) = Len(asciiArt)
        /\ \A k \in 1..Len(asciiArt) :
              /\ Strip(colored.lines[k]) = asciiArt[k]
              /\ Len(asciiArt[k]) > SumSeq(charWidths) =>
                    LET n == Len(asciiArt[k]) - SumSeq(charWidths)
                    IN  /\ Len(colored.lines[k]) >= n
                        /\ C18_Tail(colored.lines[k], n) = C18_Tail(asciiArt[k], n)

\* a colored first line longer than the widths, a second line of their length
C18_Witness ==
    /\ C18_Case
    /\ Len(asciiArt) = 2
    /\ Len(asciiArt[1]) = SumSeq(charWidths) + 2
    /\ ColorColumns(colored.lines[1]) # <<>>
    /\ ResetColumns(colored.lines[1]) # <<>>

(***************************************************************************)
(* C19: ApplyColor never fails, whatever the art lines, text, substring    *)
(* and non-negative widths, widths longer or shorter than text included.   *)
(***************************************************************************)
C19_ApplyColorNeverFails == cpc = "returned" => ~colored.panicked

(***************************************************************************)
(* C20: for every valid text and each banner, standard output holds, in    *)
(* plain mode and in color mode, exactly 8*n + m line breaks, n the number *)
(* of non-empty and m the number of empty logical lines of the text: 8 for *)
(* a single-line text, 16 for two non-empty lines, nothing for the empty   *)
(* text.                                                                   *)
(***************************************************************************)
C20_Breaks(s) == Cardinality({k \in 1..Len(s) : s[k] = NewLine})

C20_NonEmptyLines(s) ==
    Cardinality({k \in 1..Len(LogicalLines(s)) : LogicalLines(s)[k] # <<>>})

C20_EmptyLines(s) ==
    Cardinality({k \in 1..Len(LogicalLines(s)) : LogicalLines(s)[k] = <<>>})

C20_Case == ppc = "exited" /\ IsValidText(ptext)

C21_Case == pc = "returned" /\ (input = <<>> \/ input = <<NewLine>>)

C21_EmptyForEmptyAndLoneBreak ==
    C21_Case => out = <<>> /\ err = NoError

(***************************************************************************)
(* C22: flagparser.ParseArgs accepts an argument vector iff it has 2 to 5  *)
(* arguments, args[1] starts with '-' only as "--color=", no argument at   *)
(* an index other than 1 starts with "--color=", and a "--color=" flag     *)
(* comes with at least 3 arguments and a non-empty value; otherwise it     *)
(* returns the usage error.  As stated the index 0 is included; the code   *)
(* does not inspect args[0].                                               *)
(***************************************************************************)
C22_Flag == <<45, 45, 99, 111, 108, 111, 114, 61>>

C22_StartsWith(s, p) == Len(s) >= Len(p) /\ \A k \in 1..Len(p) : s[k] = p[k]

\* the conditions of the claim on the arguments at the 0-based indexes from
\* first on, args[1] apart
C22_Acceptable(first) ==
    /\ Len(args) >= 2
    /\ Len(args) <= 5
    /\ C22_StartsWith(args[2], <<45>>) => C22_StartsWith(args[2], C22_Flag)
    /\ \A k \in first..(Len(args) - 1) :
          k # 1 => ~C22_StartsWith(args[k + 1], C22_Flag)
    /\ C22_StartsWith(args[2], C22_Flag) =>
          Len(args) >= 3 /\ Len(args[2]) > Len(C22_Flag)

C22_UsageError == [kind |-> "Usage: go run . [OPTION] [STRING]", ch |-> 0, n |-> 0]

C23_After == SubSeq(args, 3, Len(args))

C23_IsBannerName(s) ==
    \/ s = <<115, 116, 97, 110, 100, 97, 114, 100>>
    \/ s = <<115, 104, 97, 100, 111, 119>>
    \/ s = <<116, 104, 105, 110, 107, 101, 114, 116, 111, 121>>

\* s with every backslash followed by n replaced by a line break, and no
\* backslash-n left where one was
C23_IsUnescaped(s, t) ==
    \E cut \in SUBSET (1..Len(s)) :
        /\ \A k \in cut : k < Len(s) /\ s[k] = 92 /\ s[k + 1] = 110 /\ (k + 1) \notin cut
        /\ \A k \in 1..(Len(s) - 1) :
              s[k] = 92 /\ s[k + 1] = 110 => k \in cut \/ (k - 1) \in cut
        /\ LET kept == SelectSeq([k \in 1..Len(s) |-> k], LAMBDA k : (k - 1) \notin cut)
           IN  /\ Len(t) = Len(kept)
               /\ \A j \in 1..Len(kept) :
                     t[j] = IF kept[j] \in cut THEN NewLine ELSE s[kept[j]]

C23_FirstEq(s) == CHOOSE k \in 1..Len(s) : s[k] = 61 /\ \A j \in 1..(k - 1) : s[j] # 61

C23_Resolved(sub, t, b) ==
    /\ extracted.err = NoError
    /\ extracted.substring = sub
    /\ C23_IsUnescaped(t, extracted.text)
    /\ extracted.banner = b
    /\ extracted.colorSpec = SubSeq(args[2], C23_FirstEq(args[2]) + 1, Len(args[2]))

C23_Default == <<115, 116, 97, 110, 100, 97, 114, 100>>

C23_ArgumentsResolved ==
    apc = "returned" =>
        /\ Len(C23_After) = 1 => C23_Resolved(<<>>, C23_After[1], C23_Default)
        /\ Len(C23_After) = 2 /\ C23_IsBannerName(C23_After[2]) =>
              C23_Resolved(<<>>, C23_After[1], C23_After[2])
        /\ Len(C23_After) = 2 /\ ~C23_IsBannerName(C23_After[2]) =>
              C23_Resolved(C23_After[1], C23_After[2], C23_Default)
        /\ Len(C23_After) = 3 =>
              C23_Resolved(C23_After[1], C23_After[2], C23_After[3])
        /\ Len(C23_After) = 0 \/ Len(C23_After) > 3 => extracted.err # NoError

\* --color=a=b A\nB shadow: color spec a=b, text with a line break, banner
C23_Witness ==
    /\ apc = "returned"
    /\ args = << <<112>>, <<45, 45, 99, 111, 108, 111, 114, 61, 97, 61, 98>>,
                 <<65, 92, 110, 66>>, <<115, 104, 97, 100, 111, 119>> >>
    /\ extracted = [colorSpec |-> <<97, 61, 98>>, substring |-> <<>>,
                    text |-> <<65, NewLine, 66>>,
                    banner |-> <<115, 104, 97, 100, 111, 119>>, err |-> NoError]

(***************************************************************************)
(* C24: color.Parse returns RGB{r,g,b} for rgb(r,g,b) with decimal         *)
(* components in 0..255 (spaces around components allowed, prefix in any   *)
(* case) and for the #RRGGBB form of two hex digits per channel; it        *)
(* returns an error when a component exceeds 255 or is no number, the      *)
(* component count is not 3, the closing parenthesis is missing, a # form  *)
(* is not exactly 7 characters of hex digits, the name is unknown, or the  *)
(* spec is empty or only white space.                                      *)
(***************************************************************************)
C24_HexDigit(c) == c \in 48..57 \/ c \in 65..70 \/ c \in 97..102

C24_HexVal(c) == IF c \in 48..57 THEN c - 48 ELSE IF c \in 65..70 THEN c - 55 ELSE c - 87

C24_IsHexColor(s) == Len(s) = 7 /\ s[1] = 35 /\ \A k \in 2..7 : C24_HexDigit(s[k])

C24_Channel(s, k) == 16 * C24_HexVal(s[k]) + C24_HexVal(s[k + 1])

C24_GoodRgb ==
    /\ cshape.form = "rgb"
    /\ cshape.closed
    /\ Len(cshape.comps) = 3
    /\ \A k \in 1..3 : cshape.comps[k] \in 0..255

C24_ParseFormsAndErrors ==
    apc = "returned" /\ cshape.form # "none" =>
        /\ C24_GoodRgb => parsed = [rgb |-> cshape.comps, err |-> NoError]
        /\ cshape.form = "rgb" /\ ~C24_GoodRgb => parsed.err # NoError
        /\ cshape.form = "hex" /\ C24_IsHexColor(cspec) =>
              parsed = [rgb |-> <<C24_Channel(cspec, 2), C24_Channel(cspec, 4),
                                  C24_Channel(cspec, 6)>>,
                        err |-> NoError]
        /\ cshape.form = "hex" /\ ~C24_IsHexColor(cspec) => parsed.err # NoError
        /\ cshape.form = "name" /\ cshape.comps = <<>> => parsed.err # NoError
        /\ cshape.form = "blank" => parsed.err # NoError

\* " RGB(255, 9 ,0) " parsed
C24_Witness ==
    /\ apc = "returned"
    /\ cspec = <<32, 82, 71, 66, 40, 50, 53, 53, 44, 32, 57, 32, 44, 48, 41, 32>>
    /\ parsed = [rgb |-> <<255, 9, 0>>, err |-> NoError]

(***************************************************************************)
(* C25: for a single-line text that ASCII renders against a table whose    *)
(* glyphs each have 8 rows of equal length, with w = CharWidths(text,      *)
(* table), every rendered row has length sum(w), and the columns from      *)
(* sum(w[0..i-1]) up to sum(w[0..i]) of row r are row r of the glyph of    *)
(* the i-th character.                                                     *)
(***************************************************************************)
C25_EvenGlyph(g) ==
    Len(g.rows) = 8 /\ \A r \in 1..8 : Len(g.rows[r]) = Len(g.rows[1])

C25_Case ==
    /\ pc = "returned"
    /\ err = NoError
    /\ input # <<>>
    /\ \A k \in 1..Len(input) : input[k] # NewLine
    /\ \A c \in DOMAIN banner : C25_EvenGlyph(banner[c])

C25_WidthsAddressGlyphColumns ==
    C25_Case =>
        /\ ~widths.panicked
        /\ Len(widths.w) = Len(input)
        /\ Len(RowsOf(out)) = 8
        /\ \A r \in 1..8 :
              /\ Len(RowsOf(out)[r]) = ColumnOf(widths.w, Len(input))
              /\ \A k \in 1..Len(input) :
                    SubSeq(RowsOf(out)[r], ColumnOf(widths.w, k - 1) + 1,
                           ColumnOf(widths.w, k))
                        = banner[input[k]].rows[r]

\* "AB" under glyphs of 2 and 1 columns
C25_Witness ==
    /\ C25_Case
    /\ input = <<65, 66>>
    /\ widths.w = <<2, 1>>
    /\ Len(RowsOf(out)[8]) = 3

(***************************************************************************)
(* C26: on every output line of a returning ApplyColor the color codes and *)
(* resets alternate, beginning with a color code and ending with a reset:  *)
(* every span opened on a line is closed on that line, also for short      *)
(* lines, for fewer widths than characters and for widths of 0.            *)
(***************************************************************************)
C26_IsMarker(tok) == tok.kind # "art"

C26_Markers(s) == SelectSeq(Tokens(s), C26_IsMarker)

C26_Alternates(s) ==
    /\ Len(C26_Markers(s)) % 2 = 0
    /\ \A j \in 1..Len(C26_Markers(s)) :
          C26_Markers(s)[j].kind = IF j % 2 = 1 THEN "color" ELSE "reset"

C26_SpansClosedOnTheirLine ==
    cpc = "returned" /\ ~colored.panicked =>
        \A k \in 1..Len(colored.lines) : C26_Alternates(colored.lines[k])

(***************************************************************************)
(* C29: in color mode a text with an unrenderable logical line ends the    *)
(* run with the render-error exit code and with nothing written to         *)
(* standard output, whichever line holds the bad character.                *)
(***************************************************************************)
C29_Case == mode = "color" /\ ppc = "exited" /\ ~IsValidText(ptext)

C29_NoOutputBeforeRenderFailure ==
    C29_Case => exitCode = exitCodeRenderError /\ stdout = <<>>

(***************************************************************************)
(* C28: for a valid text and a full banner, what color mode prints, with   *)
(* every color code and every reset taken out, is exactly what plain mode  *)
(* printed for the same text and banner: same rows, same blank lines, same *)
(* final line break.                                                       *)
(***************************************************************************)
C28_CharsOf(toks) ==
    [k \in 1..Len(toks) |-> toks[k].ch]

\* a row of the output without its color codes and resets
C28_Stripped(row) ==
    C28_CharsOf(SelectSeq(TokensFrom(row, ANSI(Red), 1), IsArtToken))

C28_EndsWithBreak(s) == s # <<>> /\ s[Len(s)] = NewLine

C28_Case ==
    /\ mode = "color"
    /\ ppc = "exited"
    /\ plainOut.ran
    /\ IsValidText(ptext)

C27_Order == <<"validate", "extract", "color", "resolve", "load", "render">>

C27_IsPrefix(a, b) == Len(a) <= Len(b) /\ a = SubSeq(b, 1, Len(a))

\* "red", the one color of the argument vectors that is a color
C27_GoodColor == extracted.colorSpec = <<114, 101, 100>>

\* the 1-based index in C27_Order of the first stage that fails, 0 for none
C27_FirstFailure ==
    IF ~C22_Acceptable(2) THEN 1
    ELSE IF ~C27_GoodColor THEN 3
    ELSE IF ~C23_IsBannerName(extracted.banner) THEN 4
    ELSE IF loadFails THEN 5
    ELSE IF ~IsValidText(ptext) THEN 6
    ELSE 0

C27_CodeOf(stage) ==
    CASE stage = 0 -> 0
      [] stage \in {1, 2, 4} -> 1
      [] stage = 3 -> 4
      [] stage = 5 -> 2
      [] stage = 6 -> 3

C27_StagesInOrderFirstFailureDecides ==
    mode = "color" =>
        /\ C27_IsPrefix(stages, C27_Order)
        /\ ppc = "exited" =>
              /\ exitCode = C27_CodeOf(C27_FirstFailure)
              /\ stages = SubSeq(C27_Order, 1,
                                 IF C27_FirstFailure = 0 THEN 6 ELSE C27_FirstFailure)
              /\ C27_FirstFailure \in 1..4 => charMap = <<>>
              /\ C27_FirstFailure \in 1..5 => stdout = <<>>

\* --color=zz with the banner name "x": the color is judged first
C27_Witness ==
    /\ mode = "color"
    /\ ppc = "exited"
    /\ extracted.colorSpec = <<122, 122>>
    /\ extracted.banner = <<120>>
    /\ exitCode = 4
    /\ stages = <<"validate", "extract", "color">>

(***************************************************************************)
(* C30: the program takes the color path exactly when args[1] exists and   *)
(* begins with "--color".  A vector on the color path whose args[1] is not *)
(* "--color=" followed by a non-empty value ends with the usage error and  *)
(* exit code 1 after validation alone: no color is parsed, no banner is    *)
(* loaded, nothing is printed, and the plain path is never taken.          *)
(***************************************************************************)
C30_Name == <<45, 45, 99, 111, 108, 111, 114>>

C30_BeginsWithName == Len(args) >= 2 /\ C22_StartsWith(args[2], C30_Name)

C30_HasValue == C22_StartsWith(args[2], C22_Flag) /\ Len(args[2]) > Len(C22_Flag)

C30_Malformed == C30_BeginsWithName /\ ~C30_HasValue

====
